---- MODULE Spec2Model ----
\* Verification model of the per-frame simulation engine of the portfolio site:
\*   NeuralNetworkEffect (src/Visuals.tsx)  - nodes, broken-edge map, line buffers
\*   LorenzAttractor     (src/Visuals.tsx)  - Euler integrator with trail history
\*   ShootingStarEffect  (src/data.ts)      - emission slots and particle ring
\*
\* Numbers.  The source computes in floating point; the model computes in fixed
\* point.  The unit of length is 0.000025 world units (an eighth of the steering
\* increment 0.0002, the smallest length the node code adds), ray/segment
\* geometry is evaluated on the lattice of tenths of a world unit, elapsed time
\* is counted in tenths of a second, opacities and ratios in thousandths.
EXTENDS Integers, Sequences, FiniteSets, TLC

VARIABLES
    particles,      \* Visuals.tsx:117  per node [x,y,z,vx,vy,vz,status,hitTime]
    brokenRef,      \* Visuals.tsx:157  Map key -> {brokenAt, ratio}
    now,            \* clock.elapsedTime sampled by the last frame
    pointer,        \* state.pointer sampled by the last frame (where the ray pierces)
    pointPositions, \* Visuals.tsx:140
    pointColors,    \* Visuals.tsx:141
    pointOpacities, \* Visuals.tsx:142
    lineBuf,        \* Visuals.tsx:136-138 linePositions/lineColors/lineOpacities, per vertex
    drawCount,      \* Visuals.tsx:299  setDrawRange(0, vertexIndex / 3)
    emitCount,      \* vertices the last edge pass wrote for each pair
    healed,         \* keys the last edge pass deleted from the map
    slow,           \* a second run of the same effect, ticking at a lower rate: its state
    stars,          \* data.ts:737     emission slots {active, startTime, startPos, endPos, duration}
    particleSystem, \* data.ts:757     per slot position, velocity, age, lifetime, size; cursor
    time,           \* state.clock.elapsedTime sampled by the last ShootingStarEffect frame
    perfOffset,     \* performance.now() / 1000 - clock.elapsedTime: the clock started this late
    born,           \* per pool slot, the ordinal of the emission that last wrote it (0: none)
    emitted,        \* number of emissions so far
    trajectories,   \* Visuals.tsx:393 per trajectory {current, history, baseColors, dt}
    groupRef,       \* Visuals.tsx:379 the group: attached yet?, rotation.y in thousandths
    colorsArr,      \* Visuals.tsx:433 the colour attribute of each line
    theme,          \* Visuals.tsx:377 'light' | 'dark'
    trail,          \* per trajectory, the starting position and then the samples integrated so far
    plotNet         \* PlotComponents.tsx:859 the lastBroken variant of NeuralNetworkEffect:
                    \* positions, velocities, lastBroken, line buffers, draw range, clock

netVars == <<slow, particles, brokenRef, now, pointer, pointPositions, pointColors,
             pointOpacities, lineBuf, drawCount, emitCount, healed>>

poolVars == <<stars, particleSystem, time, perfOffset, born, emitted>>

lorenzVars == <<trajectories, groupRef, colorsArr, theme, trail>>

plotVars == <<plotNet>>

vars == <<netVars, poolVars, lorenzVars, plotVars>>

-----------------------------------------------------------------------------
\* Bounds of the model.

\* number of nodes (count, 60 in the source)
NodeCount == 3
\* the clock stops being advanced once it reaches MaxNow tenths of a second
MaxNow == 36
\* emission slots (STAR_POOL_SIZE, 5 in the source)
STAR_POOL_SIZE == 2
\* pool capacity (PARTICLE_COUNT, 4000 in the source)
PARTICLE_COUNT == 5
\* particles per active slot and frame (EMISSION_RATE, 8 in the source)
EMISSION_RATE == 3
\* ShootingStarEffect frames stop once the clock reaches MaxTime tenths of a second
MaxTime == 30
\* ... or once MaxEmitted particles have been emitted
MaxEmitted == 12
\* trajectories (count, 75 in the source)
TrajCount == 2
\* samples per trail (trailLength, 120 in the source)
trailLength == 4
\* LorenzAttractor frames stop after MaxSteps steps
MaxSteps == 8
\* frames of a run of NeuralNetworkEffect with the pointer kept away
MotionTicks == 10000
\* the clock time up to which stars are triggered in the runs with fairness
LastTrigger == 8

-----------------------------------------------------------------------------
\* Program constants, in model units.

\* the steering increment 0.0002, in length units
STEER == 8
\* length units per world unit (1 / 0.0002 increments)
World == 5000 * STEER
\* lattice cell of the geometry: 0.1 world unit
Cell == World \div 10
\* radius = 10 world units
radius == 10
\* soft bound of z, and half the z extent of the spawn box: 4 world units
zBound == 4
\* spawn velocity is (Math.random() - 0.5) * 0.01: at most 0.005 = 25 increments
maxSpawnIncrements == 25
\* POINT_HIT_SQ = 0.4 * 0.4: 4 cells, squared
pointHitCells == 4
\* LINE_HIT_SQ = 0.2 * 0.2: 2 cells, squared
lineHitCells == 2
\* distSq > 16: maxConnectionDistance is 4 world units = 40 cells
maxConnCells == 40
\* tenths of a second
FADE_DURATION == 5
RESPAWN_TIME == 30
BREAK_DURATION == 4
COOLDOWN == 20

POINT_HIT_SQ == pointHitCells * pointHitCells
LINE_HIT_SQ == lineHitCells * lineHitCells
MAX_CONN_SQ == maxConnCells * maxConnCells

maxSpawnSpeed == maxSpawnIncrements * STEER
xBound == radius * World
yBound == (radius * 8 * World) \div 10
zBoundF == zBound * World

Nodes == 1..NodeCount
Pairs == {p \in Nodes \X Nodes : p[1] < p[2]}
\* the line buffers hold maxConnections = count * count segments, 2 vertices each
BufVertices == 2 * NodeCount * NodeCount

Max(a, b) == IF a > b THEN a ELSE b
Min(a, b) == IF a < b THEN a ELSE b
Abs(a) == IF a < 0 THEN 0 - a ELSE a

-----------------------------------------------------------------------------
\* RayInteractionProbe: the THREE.Ray the frame callback builds from the pointer.
\* The camera belongs to the host; the model takes the orthographic branch of
\* Raycaster.setFromCamera, a ray along -z through the pointed-at (x, y), and
\* keeps every node in front of the ray origin.

Lat(c) == c \div Cell
LatPos(p) == <<Lat(p[1]), Lat(p[2]), Lat(p[3])>>
Sq(a) == a * a
DistSq(A, B) == Sq(A[1] - B[1]) + Sq(A[2] - B[2]) + Sq(A[3] - B[3])

\* largest d with d * d <= n, by bisection on lo..hi
RECURSIVE ISqrtIn(_, _, _)
ISqrtIn(n, lo, hi) ==
    IF lo >= hi THEN lo
    ELSE LET mid == (lo + hi + 1) \div 2
         IN IF mid * mid <= n THEN ISqrtIn(n, mid, hi) ELSE ISqrtIn(n, lo, mid - 1)
ISqrt(n) == ISqrtIn(n, 0, 10 * maxConnCells + 1)

\* not-a-number: a value no quantity of the model takes
NaN == 0 - 1000000000
\* the ray of a pointer whose coordinates are NaN
NaNRay == [x |-> NaN, y |-> NaN]
\* mutant: a comparison with NaN holds
LessOrNaN(a, b) == a = NaN \/ b = NaN \/ a < b
\* a < b in JavaScript: false when either side is NaN
Less(a, b) == a # NaN /\ b # NaN /\ a < b

\* ray.distanceSqToPoint(P), P on the lattice; NaN for the NaN ray
DistanceSqToPoint(ray, P) ==
    IF ray = NaNRay THEN NaN ELSE Sq(P[1] - ray.x) + Sq(P[2] - ray.y)

\* ray.distanceSqToSegment(A, B, undefined, onSegment), A and B on the lattice.
\* The squared distance is the fraction sqn / sqd, the closest point on the
\* segment is A + (tn / td) (B - A); td = 0 marks the zero-length segment, whose
\* closest point is A and whose parameter is undefined.  For the NaN ray every
\* product with the ray is NaN and so is the result.
DistanceSqToSegment(ray, A, B) ==
    IF ray = NaNRay THEN [sqn |-> NaN, sqd |-> 1, tn |-> NaN, td |-> 1] ELSE
    LET ex == B[1] - A[1]
        ey == B[2] - A[2]
        den == Sq(ex) + Sq(ey)
        num == (ray.x - A[1]) * ex + (ray.y - A[2]) * ey
        dA == DistanceSqToPoint(ray, A)
        dB == DistanceSqToPoint(ray, B)
    IN  IF A = B THEN [sqn |-> dA, sqd |-> 1, tn |-> 0, td |-> 0]
        ELSE IF den = 0 THEN
            \* segment parallel to the ray: Ray.js takes the end chosen by the
            \* sign of the segment direction along the ray
            IF B[3] > A[3] THEN [sqn |-> dA, sqd |-> 1, tn |-> 0, td |-> 1]
                           ELSE [sqn |-> dB, sqd |-> 1, tn |-> 1, td |-> 1]
        ELSE IF num <= 0 THEN [sqn |-> dA, sqd |-> 1, tn |-> 0, td |-> 1]
        ELSE IF num >= den THEN [sqn |-> dB, sqd |-> 1, tn |-> 1, td |-> 1]
        ELSE [sqn |-> dA * den - num * num, sqd |-> den, tn |-> num, td |-> den]

-----------------------------------------------------------------------------
\* NodeSimulator: the "Update Particles" loop of the frame callback.

\* mutant: no steering
SteerNever(c, v, bound) == v
\* mutant: steering on the positive side only
SteerOneSide(c, v, bound) == IF c > bound THEN v - STEER ELSE v
Steer(c, v, bound) ==
    IF c > bound THEN v - STEER
    ELSE IF c < 0 - bound THEN v + STEER
    ELSE v

Move(p) == [p EXCEPT !.x = p.x + p.vx, !.y = p.y + p.vy, !.z = p.z + p.vz]

NodeHit(ray, p) == Less(DistanceSqToPoint(ray, LatPos(<<p.x, p.y, p.z>>)), POINT_HIT_SQ)

\* mutant: a Dying node never respawns
RespawnedNever(t, p) == FALSE
\* mutant: the respawn test uses the fade duration
RespawnedAfterFade(t, p) == t - p.hitTime > FADE_DURATION
Respawned(t, p) == t - p.hitTime > RESPAWN_TIME

\* mutant: a hit leaves the velocity as it was, and a Dying node keeps it
UpdateNodeCoasting(p, ray, t, rnd) ==
    IF p.status = 0 THEN
        IF NodeHit(ray, p)
        THEN Move([p EXCEPT !.status = 1, !.hitTime = t])
        ELSE Move([p EXCEPT !.vx = Steer(p.x, p.vx, xBound),
                            !.vy = Steer(p.y, p.vy, yBound),
                            !.vz = Steer(p.z, p.vz, zBoundF)])
    ELSE
        IF Respawned(t, p)
        THEN Move([p EXCEPT !.status = 0,
                            !.x = rnd.x, !.y = rnd.y, !.z = rnd.z,
                            !.vx = rnd.vx, !.vy = rnd.vy, !.vz = rnd.vz])
        ELSE Move(p)

\* rnd: the six Math.random() draws of a respawn, as a position and a velocity
UpdateNode(p, ray, t, rnd) ==
    IF p.status = 0 THEN
        IF NodeHit(ray, p)
        THEN Move([p EXCEPT !.status = 1, !.hitTime = t, !.vx = 0, !.vy = 0, !.vz = 0])
        ELSE Move([p EXCEPT !.vx = Steer(p.x, p.vx, xBound),
                            !.vy = Steer(p.y, p.vy, yBound),
                            !.vz = Steer(p.z, p.vz, zBoundF)])
    ELSE
        IF Respawned(t, p)
        THEN Move([p EXCEPT !.status = 0,
                            !.x = rnd.x, !.y = rnd.y, !.z = rnd.z,
                            !.vx = rnd.vx, !.vy = rnd.vy, !.vz = rnd.vz])
        ELSE Move([p EXCEPT !.vx = 0, !.vy = 0, !.vz = 0])

\* opacity in ten-thousandths: life = max(0, 1 - (now - hitTime) / FADE_DURATION)
ONE == 10000
\* mutant: the life of a Dying node is not clamped at 0
OpacityUnclamped(p, t) ==
    IF p.status = 1
    THEN ONE - ((t - p.hitTime) * ONE) \div FADE_DURATION
    ELSE ONE
Opacity(p, t) ==
    IF p.status = 1
    THEN Max(0, ONE - ((t - p.hitTime) * ONE) \div FADE_DURATION)
    ELSE ONE

\* the colour written for a node: the lerpColors call that produced it
\* (leg "hit" = colorRed, "low" = blue -> base, "high" = base -> green),
\* with the mix factor in thousandths; threshold = 0.2
NodeColor(p) ==
    IF p.status = 1 THEN [leg |-> "hit", mix |-> 0]
    ELSE LET t == Max(0, Min(1000, ((p.z + zBoundF) * 1000) \div (2 * zBoundF)))
         IN IF t < 200 THEN [leg |-> "low", mix |-> (t * 1000) \div 200]
            ELSE [leg |-> "high", mix |-> ((t - 200) * 1000) \div 800]


-----------------------------------------------------------------------------
\* ProximityGraphBuilder: the "Update Lines" loop of the frame callback.

MapDelete(m, k) == [q \in DOMAIN m \ {k} |-> m[q]]
MapSet(m, k, v) == [q \in DOMAIN m \cup {k} |-> IF q = k THEN v ELSE m[q]]

\* mutant: the squared distance is compared with the fourth power
OutOfRangeFourth(distSq) == distSq > MAX_CONN_SQ * MAX_CONN_SQ
\* distSq > 16
OutOfRange(distSq) == distSq > MAX_CONN_SQ

\* mutant: no pair is skipped for its opacity
InvisibleNever(oi, oj) == FALSE
\* pointOpacities[i] <= 0.01 || pointOpacities[j] <= 0.01
Invisible(oi, oj) == oi <= ONE \div 100 \/ oj <= ONE \div 100

\* mutant: the record is deleted only by a frame 0.1 s after the cooldown
ExpiredExactly(m, k, t) == k \in DOMAIN m /\ t - m[k].brokenAt = COOLDOWN + 1
\* mutant: the cooldown test is not strict
ExpiredAtCooldown(m, k, t) == k \in DOMAIN m /\ t - m[k].brokenAt >= COOLDOWN
\* brokenState && (now - brokenState.brokenAt > COOLDOWN)
Expired(m, k, t) == k \in DOMAIN m /\ t - m[k].brokenAt > COOLDOWN

\* ray.distanceSqToSegment(...) < LINE_HIT_SQ
SegmentCut(ray, A, B) ==
    LET h == DistanceSqToSegment(ray, A, B)
    IN  Less(h.sqn, LINE_HIT_SQ * h.sqd)

\* Math.max(0.01, Math.min(0.99, vec3.distanceTo(onSegment) / Math.sqrt(distSq))),
\* in thousandths.  The quotient is the parameter of the closest point; on a
\* zero-length segment it is 0 / 0, which Math.min and Math.max pass through
\* as NaN.
CutRatio(ray, A, B) ==
    LET h == DistanceSqToSegment(ray, A, B)
    IN  IF h.td = 0 \/ h.tn = NaN THEN NaN
        ELSE Max(10, Min(990, (1000 * h.tn) \div h.td))

\* Math.max(0, 1 - Math.sqrt(distSq) / 4), in ten-thousandths (the root is
\* taken to hundredths of a world unit)
DistAlpha(distSq) == Max(0, ONE - 25 * ISqrt(100 * distSq))

Vertex(pos, col, a) == [pos |-> pos, col |-> col, a |-> a]

\* mutant: the sub-segment grows with the eased progress instead of shrinking
RetreatGrowing(a, b, ratio, age) ==
    IF ratio = NaN THEN NaN ELSE
    a + ((((b - a) * ratio) \div 1000)
            * (BREAK_DURATION * BREAK_DURATION * BREAK_DURATION
               - (BREAK_DURATION - age) * (BREAK_DURATION - age) * (BREAK_DURATION - age)))
        \div (BREAK_DURATION * BREAK_DURATION * BREAK_DURATION)
\* a + (b - a) * ratio * shrink, shrink = (1 - age / BREAK_DURATION)^3; NaN for
\* the ratio NaN
Retreat(a, b, ratio, age) ==
    IF ratio = NaN THEN NaN ELSE
    a + ((((b - a) * ratio) \div 1000) * (BREAK_DURATION - age) * (BREAK_DURATION - age)
            * (BREAK_DURATION - age)) \div (BREAK_DURATION * BREAK_DURATION * BREAK_DURATION)

RetreatPos(P, Q, ratio, age) ==
    <<Retreat(P[1], Q[1], ratio, age), Retreat(P[2], Q[2], ratio, age),
      Retreat(P[3], Q[3], ratio, age)>>

\* 1 - t, in thousandths; NaN for NaN
Complement(ratio) == IF ratio = NaN THEN NaN ELSE 1000 - ratio

\* mutant: each sub-segment is written twice, eight vertices for a pair
SeveredVertsTwice(Pi, Pj, ci, cj, a1, a2, ratio, age) ==
    << Vertex(Pi, ci, a1), Vertex(RetreatPos(Pi, Pj, ratio, age), ci, a1),
       Vertex(Pi, ci, a1), Vertex(RetreatPos(Pi, Pj, ratio, age), ci, a1),
       Vertex(Pj, cj, a2), Vertex(RetreatPos(Pj, Pi, Complement(ratio), age), cj, a2),
       Vertex(Pj, cj, a2), Vertex(RetreatPos(Pj, Pi, Complement(ratio), age), cj, a2) >>
\* mutant: the sub-segment at endpoint j reaches as far as the one at i
SeveredVertsSameRatio(Pi, Pj, ci, cj, a1, a2, ratio, age) ==
    << Vertex(Pi, ci, a1), Vertex(RetreatPos(Pi, Pj, ratio, age), ci, a1),
       Vertex(Pj, cj, a2), Vertex(RetreatPos(Pj, Pi, ratio, age), cj, a2) >>
\* the two shrinking sub-segments of a pair whose record has age < BREAK_DURATION
SeveredVerts(Pi, Pj, ci, cj, a1, a2, ratio, age) ==
    << Vertex(Pi, ci, a1), Vertex(RetreatPos(Pi, Pj, ratio, age), ci, a1),
       Vertex(Pj, cj, a2), Vertex(RetreatPos(Pj, Pi, Complement(ratio), age), cj, a2) >>

\* mutant: the full segment writes its first vertex only
IntactVertsOne(Pi, Pj, ci, cj, a1, a2) == << Vertex(Pi, ci, a1) >>
\* the full segment of a pair without a record
IntactVerts(Pi, Pj, ci, cj, a1, a2) == << Vertex(Pi, ci, a1), Vertex(Pj, cj, a2) >>

\* mutant: the severed phase lasts for the cooldown
PairVertsLong(m, k, t, Pi, Pj, ci, cj, distAlpha, a1, a2) ==
    IF k \in DOMAIN m THEN
        IF t - m[k].brokenAt < COOLDOWN
        THEN SeveredVerts(Pi, Pj, ci, cj, a1, a2, m[k].ratio,
                          Min(t - m[k].brokenAt, BREAK_DURATION))
        ELSE << >>
    ELSE
        IF distAlpha > ONE \div 100 THEN IntactVerts(Pi, Pj, ci, cj, a1, a2) ELSE << >>
\* mutant: the full segment is drawn only if both vertex alphas exceed 0.01
PairVertsByVertexAlpha(m, k, t, Pi, Pj, ci, cj, distAlpha, a1, a2) ==
    IF k \in DOMAIN m THEN
        IF t - m[k].brokenAt < BREAK_DURATION
        THEN SeveredVerts(Pi, Pj, ci, cj, a1, a2, m[k].ratio, t - m[k].brokenAt)
        ELSE << >>
    ELSE
        IF a1 > ONE \div 100 /\ a2 > ONE \div 100
        THEN IntactVerts(Pi, Pj, ci, cj, a1, a2) ELSE << >>
\* what the pair draws, given the record (or none) left by the hit test
PairVerts(m, k, t, Pi, Pj, ci, cj, distAlpha, a1, a2) ==
    IF k \in DOMAIN m THEN
        IF t - m[k].brokenAt < BREAK_DURATION
        THEN SeveredVerts(Pi, Pj, ci, cj, a1, a2, m[k].ratio, t - m[k].brokenAt)
        ELSE << >>
    ELSE
        IF distAlpha > ONE \div 100 THEN IntactVerts(Pi, Pj, ci, cj, a1, a2) ELSE << >>

\* the record map after the cooldown check of pair k
Healed(m, k, t) == IF Expired(m, k, t) THEN MapDelete(m, k) ELSE m

\* mutant: the hit test also runs for a pair that has a record
CutTestedAgain(m, k, t, ray, A, B) ==
    IF SegmentCut(ray, A, B)
    THEN MapSet(m, k, [brokenAt |-> t, ratio |-> CutRatio(ray, A, B)])
    ELSE m
\* the record map after the hit test of pair k
CutTested(m, k, t, ray, A, B) ==
    IF k \notin DOMAIN m /\ SegmentCut(ray, A, B)
    THEN MapSet(m, k, [brokenAt |-> t, ratio |-> CutRatio(ray, A, B)])
    ELSE m

\* one iteration of the inner loop: acc = [broken, verts, emit, healed]
EdgePair(i, j, acc, pos, col, opa, ray, t) ==
    LET A == LatPos(pos[i])
        B == LatPos(pos[j])
        distSq == DistSq(A, B)
        k == <<i, j>>
    IN  IF OutOfRange(distSq) THEN acc
        ELSE IF Invisible(opa[i], opa[j]) THEN acc
        ELSE LET m == CHOOSE v \in {CutTested(Healed(acc.broken, k, t), k, t, ray, A, B)} : TRUE
                 distAlpha == DistAlpha(distSq)
                 a1 == (distAlpha * opa[i]) \div ONE
                 a2 == (distAlpha * opa[j]) \div ONE
                 vs == CHOOSE v \in {PairVerts(m, k, t, pos[i], pos[j], col[i], col[j],
                                               distAlpha, a1, a2)} : TRUE
             IN  [broken |-> m,
                  verts |-> acc.verts \o vs,
                  emit |-> [acc.emit EXCEPT ![k] = Len(vs)],
                  healed |-> IF Expired(acc.broken, k, t) THEN acc.healed \cup {k}
                             ELSE acc.healed]

\* for (i = 0; i < count; i++) for (j = i + 1; j < count; j++)
RECURSIVE EdgeLoop(_, _, _, _, _, _, _, _)
EdgeLoop(i, j, acc, pos, col, opa, ray, t) ==
    IF i > NodeCount THEN acc
    ELSE IF j > NodeCount THEN EdgeLoop(i + 1, i + 2, acc, pos, col, opa, ray, t)
    ELSE EdgeLoop(i, j + 1, EdgePair(i, j, acc, pos, col, opa, ray, t), pos, col, opa, ray, t)

\* mutant: the pass clears what lies beyond the written prefix
WriteLinesCleared(buf, verts) ==
    [n \in 1..BufVertices |->
        IF n <= Len(verts) THEN verts[n]
        ELSE [pos |-> <<0, 0, 0>>, col |-> [leg |-> "zero", mix |-> 0], a |-> 0]]
\* the typed arrays keep what lies beyond the written prefix
WriteLines(buf, verts) ==
    [n \in 1..BufVertices |-> IF n <= Len(verts) THEN verts[n] ELSE buf[n]]

-----------------------------------------------------------------------------
\* Inputs of a frame.

\* where a node can be (re)spawned: cell-centred lattice sites inside the spawn
\* box (x in +-radius, y in +-0.75 radius, z in +-4), velocity within +-0.005
Site(cx, cy, cz, vx, vy, vz) ==
    [x |-> cx * Cell + Cell \div 2, y |-> cy * Cell + Cell \div 2, z |-> cz * Cell + Cell \div 2,
     vx |-> vx, vy |-> vy, vz |-> vz]

InitSite(i) ==
    CASE i = 1 -> Site(0, 0, 0, STEER, 0, 0 - STEER)
      [] i = 2 -> Site(20, 0, 0, 0 - STEER, STEER, 0)
      [] i = 3 -> Site(10, 30, 10, 0, 0 - STEER, STEER)
      [] OTHER -> Site(0 - 60, 10 * i - 70, 0 - 20, STEER, STEER, STEER)

\* the random draws of a respawn: a site out of range of nodes 1 and 2, or a
\* site within range of every initial site
Spawns == { Site(0, 60, 0, STEER, 0, STEER), Site(10, 10, 0, 0, STEER, 0) }

\* the pointer is off every node and edge, on an edge 0.1 from node 1
\* (parameter 0.05 of edge 1-2), or on the middle of edge 2-3
Away == [x |-> 0 - 200, y |-> 150]
Pointers == { Away, [x |-> 1, y |-> 0], [x |-> 15, y |-> 15] }

\* clock.elapsedTime advances by the frame time: 0.2 s, or a stall of 1.6 s
Deltas == {2, 16}

ZeroVertex == Vertex(<<0, 0, 0>>, [leg |-> "zero", mix |-> 0], 0)

-----------------------------------------------------------------------------
\* The state machine of NeuralNetworkEffect.

\* the state after construction, sites[i] being the random draws of node i
StartState(sites) ==
    [particles |-> [i \in Nodes |->
            LET s == sites[i]
            IN [x |-> s.x, y |-> s.y, z |-> s.z, vx |-> s.vx, vy |-> s.vy, vz |-> s.vz,
                status |-> 0, hitTime |-> 0]],
     brokenRef |-> << >>,
     now |-> 0,
     pointer |-> Away,
     pointPositions |-> [i \in Nodes |-> <<0, 0, 0>>],
     pointColors |-> [i \in Nodes |-> [leg |-> "zero", mix |-> 0]],
     pointOpacities |-> [i \in Nodes |-> 0],
     lineBuf |-> [n \in 1..BufVertices |-> ZeroVertex],
     drawCount |-> 0,
     emitCount |-> [k \in Pairs |-> 0],
     healed |-> {}]

NetStart(sites) ==
    \E st \in {StartState(sites)} :
        /\ particles = st.particles
        /\ brokenRef = st.brokenRef
        /\ now = st.now
        /\ pointer = st.pointer
        /\ pointPositions = st.pointPositions
        /\ pointColors = st.pointColors
        /\ pointOpacities = st.pointOpacities
        /\ lineBuf = st.lineBuf
        /\ drawCount = st.drawCount
        /\ emitCount = st.emitCount
        /\ healed = st.healed
        /\ slow = st

NetInit == NetStart([i \in Nodes |-> InitSite(i)])

\* the nodes that draw random numbers in a frame at clock time t
Respawning(t) == {i \in Nodes : particles[i].status = 1 /\ Respawned(t, particles[i])}

\* the frame callback as a function of the state st it finds: one frame at clock
\* time t with the pointer ray `ray`; rnd[i] are the random draws of the
\* respawning node i
FrameOf(st, ray, t, rnd) ==
    LET ps == CHOOSE v \in {[i \in Nodes |->
                  UpdateNode(st.particles[i], ray, t,
                             IF i \in DOMAIN rnd THEN rnd[i] ELSE InitSite(i))]} : TRUE
        pos == CHOOSE v \in {[i \in Nodes |-> <<ps[i].x, ps[i].y, ps[i].z>>]} : TRUE
        col == CHOOSE v \in {[i \in Nodes |-> NodeColor(ps[i])]} : TRUE
        opa == CHOOSE v \in {[i \in Nodes |-> Opacity(ps[i], t)]} : TRUE
        res == CHOOSE v \in {EdgeLoop(1, 2, [broken |-> st.brokenRef, verts |-> << >>,
                                            emit |-> [k \in Pairs |-> 0], healed |-> {}],
                                      pos, col, opa, ray, t)} : TRUE
    IN  [particles |-> ps,
         brokenRef |-> res.broken,
         now |-> t,
         pointer |-> ray,
         pointPositions |-> pos,
         pointColors |-> col,
         pointOpacities |-> opa,
         lineBuf |-> WriteLines(st.lineBuf, res.verts),
         drawCount |-> Len(res.verts),
         emitCount |-> res.emit,
         healed |-> res.healed]

\* the state of the run held in the variables
Here ==
    [particles |-> particles, brokenRef |-> brokenRef, now |-> now, pointer |-> pointer,
     pointPositions |-> pointPositions, pointColors |-> pointColors,
     pointOpacities |-> pointOpacities, lineBuf |-> lineBuf, drawCount |-> drawCount,
     emitCount |-> emitCount, healed |-> healed]

\* the variables take the state st
Becomes(st) ==
    /\ particles' = st.particles
    /\ pointPositions' = st.pointPositions
    /\ pointColors' = st.pointColors
    /\ pointOpacities' = st.pointOpacities
    /\ brokenRef' = st.brokenRef
    /\ lineBuf' = st.lineBuf
    /\ drawCount' = st.drawCount
    /\ emitCount' = st.emitCount
    /\ healed' = st.healed
    /\ now' = st.now
    /\ pointer' = st.pointer

\* useFrame callback of NeuralNetworkEffect
NetFrame(ray, t, rnd) ==
    /\ \E r \in {FrameOf(Here, ray, t, rnd)} : Becomes(r)
    /\ UNCHANGED slow

Tick ==
    /\ now < MaxNow
    /\ \E ray \in Pointers, dt \in Deltas :
            \E rnd \in [Respawning(now + dt) -> Spawns] : NetFrame(ray, now + dt, rnd)

\* Runs without pointer hits.  The spawn box is |x| <= 10, |y| <= 7.5,
\* |z| <= 4 and the spawn speed at most 0.005 per axis; the draws of profile p
\* for node i put the node on the rim of the box at top speed (outwards, inwards),
\* inside it, or nearly at rest.
xSpawn == xBound
ySpawn == (radius * 75 * World) \div 100
zSpawn == zBoundF
Profiles == 1..4
MotionSite(p, i) ==
    CASE p = 1 -> [x |-> xSpawn - i, y |-> i - ySpawn, z |-> zSpawn - 2 * i,
                   vx |-> maxSpawnSpeed - 1, vy |-> 0 - maxSpawnSpeed, vz |-> maxSpawnSpeed - i]
      [] p = 2 -> [x |-> 0 - xSpawn, y |-> 0 - 56580 - i, z |-> 0 - zSpawn,
                   vx |-> 0 - (maxSpawnSpeed - 3), vy |-> 0 - (maxSpawnSpeed - 1),
                   vz |-> 0 - (maxSpawnSpeed - 3)]
      [] p = 3 -> [x |-> 0 - xSpawn + 91 * i, y |-> ySpawn - 1, z |-> 37 * i,
                   vx |-> maxSpawnSpeed - 2 * i, vy |-> 0 - (57 + 2 * i), vz |-> 150 + 3 * i]
      [] OTHER -> [x |-> 1000 * i, y |-> 0 - 2000 * i, z |-> zSpawn - 1,
                   vx |-> i, vy |-> 0 - 1, vz |-> 7]

MotionInit == \E p \in Profiles : NetStart([i \in Nodes |-> MotionSite(p, i)])

\* Two runs at different rates.  Both are constructed with the same draws: three
\* nodes on a line under the pointers, the pair 1-2 just in range with node 2
\* drifting outwards, 0.00375 short of the place where the pair goes out of
\* range.
RatesSite(i) ==
    CASE i = 1 -> Site(25, 25, 0, 0, 0, 0)
      [] i = 2 -> [x |-> 150 - 3 * Cell, y |-> Cell \div 2 - 3 * Cell, z |-> Cell \div 2,
                   vx |-> 0 - STEER, vy |-> 0, vz |-> 0]
      [] i = 3 -> Site(0, 0, 0, 0, 0, 0)
      [] OTHER -> InitSite(i)
RatesInit == NetStart([i \in Nodes |-> RatesSite(i)])

\* the nodes a frame has hit and the pairs it has cut
NewHits(before, after) ==
    {i \in Nodes : before.particles[i].status = 0 /\ after.particles[i].status = 1}
NewCuts(after) ==
    {k \in DOMAIN after.brokenRef : after.brokenRef[k].brokenAt = after.now}

\* the slower run takes a frame every 0.2 s, the run in the variables every 0.1 s
SlowPeriod == 2

\* 0.2 s later both runs take a frame with the same pointer, the same clock
\* time and the same draws for a respawn; the run in the variables has taken a
\* frame in between, its pointer away from the scene.  The common frame hits
\* the same nodes and cuts the same pairs in both runs.
RatesTick ==
    /\ now < MaxNow
    /\ \E ray \in Pointers :
        \E rnd \in [{i \in Nodes : Respawned(now + SlowPeriod, particles[i])} -> Spawns] :
        \E mid \in {FrameOf(Here, Away, now + 1, rnd)} :
        \E f \in {FrameOf(mid, ray, now + SlowPeriod, rnd)} :
        \E g \in {FrameOf(slow, ray, now + SlowPeriod, rnd)} :
            /\ NewHits(mid, f) = NewHits(slow, g)
            /\ NewCuts(f) = NewCuts(g)
            /\ Becomes(f)
            /\ slow' = g

\* a frame whose pointer coordinates are NaN
NaNTick ==
    /\ now < MaxNow
    /\ \E dt \in Deltas :
            \E rnd \in [Respawning(now + dt) -> Spawns] : NetFrame(NaNRay, now + dt, rnd)

\* a frame 0.1 s after the last one, the pointer away from the scene
MotionTick ==
    /\ now < MotionTicks
    /\ NetFrame(Away, now + 1, << >>)

-----------------------------------------------------------------------------
\* ParticleEmitterPool: ShootingStarEffect (src/data.ts).  Positions are in
\* hundredths of a world unit, times in tenths of a second, ages in
\* thousandths.

Slots == 0..(PARTICLE_COUNT - 1)
StarIds == 1..STAR_POOL_SIZE
AGE_ONE == 1000

Vec3Zero == <<0, 0, 0>>
Add3(a, b) == <<a[1] + b[1], a[2] + b[2], a[3] + b[3]>>

\* new THREE.Vector3().lerpVectors(s.startPos, s.endPos, progress), progress = age / duration
Lerp(a, b, age, duration) == a + ((b - a) * age) \div duration
LerpVectors(A, B, age, duration) ==
    <<Lerp(A[1], B[1], age, duration), Lerp(A[2], B[2], age, duration),
      Lerp(A[3], B[3], age, duration)>>

\* the paths a trigger can set: pathLength 50 through the pointed-at point at
\* Z_DEPTH = -5, along the random angle
Paths == { [startPos |-> <<0 - 2500, 0, 0 - 500>>, endPos |-> <<2500, 0, 0 - 500>>],
           [startPos |-> <<300, 0 - 2500, 0 - 500>>, endPos |-> <<300, 2500, 0 - 500>>] }
\* s.duration = 2.5 + Math.random() * 2.0
Durations == {25, 45}
\* the Math.random() draws of one emission: jitter within +-0.075, drift within
\* +-0.025, lifetime 0.5 + [0, 1.5), size
Draws == << [jit |-> <<5, 0 - 5, 0>>, vel |-> <<2, 0, 0 - 2>>, lifetime |-> 5, size |-> 300],
           [jit |-> <<0, 0, 0>>, vel |-> <<0 - 1, 2, 0>>, lifetime |-> 20, size |-> 900] >>
\* the random sequences of one frame: emission n of slot i draws
\* Draws[1] or Draws[2] in turn, starting from either
Seeds == {0, 1}
DrawOf(seed, i, n) == Draws[1 + ((seed + (i - 1) * EMISSION_RATE + n) % 2)]
\* frame times: 0.4 s, 1.6 s, and 0 while the clock still reads 0
PoolDeltas == {0, 4, 16}
FrameTimes(t) == IF t = 0 THEN PoolDeltas ELSE PoolDeltas \ {0}
\* the page's clock was started when the frame clock started, or 0.5 s earlier
Offsets == {0, 5}

PoolInit ==
    /\ stars = [i \in StarIds |-> [active |-> FALSE, startTime |-> 0, startPos |-> Vec3Zero,
                                    endPos |-> Vec3Zero, duration |-> 10]]
    /\ particleSystem = [positions |-> [n \in Slots |-> Vec3Zero],
             velocities |-> [n \in Slots |-> Vec3Zero],
             ages |-> [n \in Slots |-> AGE_ONE],
             lifetimes |-> [n \in Slots |-> 0],
             sizes |-> [n \in Slots |-> 0],
             cursor |-> 0]
    /\ time = 0
    /\ born = [n \in Slots |-> 0]
    /\ emitted = 0

\* mutant: with every slot active the first slot is taken again
FirstInactiveOrFirst ==
    IF \E i \in StarIds : ~stars[i].active
    THEN CHOOSE i \in StarIds : ~stars[i].active /\ \A j \in 1..(i - 1) : stars[j].active
    ELSE 1
\* stars.current.findIndex(s => !s.active)
FirstInactive ==
    IF \E i \in StarIds : ~stars[i].active
    THEN CHOOSE i \in StarIds : ~stars[i].active /\ \A j \in 1..(i - 1) : stars[j].active
    ELSE 0

\* the useEffect on [target, camera], with a non-null target
Trigger ==
    /\ \E path \in Paths, d \in Durations :
          LET idx == FirstInactive
          IN  stars' = IF idx = 0 THEN stars
                       ELSE [stars EXCEPT ![idx] =
                               [active |-> TRUE, startTime |-> time + perfOffset,
                                startPos |-> path.startPos, endPos |-> path.endPos,
                                duration |-> d]]
    /\ UNCHANGED <<particleSystem, time, perfOffset, born, emitted>>

\* mutant: the cursor steps backwards
EmitOneBackwards(acc, at, d) ==
    [ps |-> [positions |-> [acc.ps.positions EXCEPT ![acc.ps.cursor] = Add3(at, d.jit)],
             velocities |-> [acc.ps.velocities EXCEPT ![acc.ps.cursor] = d.vel],
             ages |-> [acc.ps.ages EXCEPT ![acc.ps.cursor] = 0],
             lifetimes |-> [acc.ps.lifetimes EXCEPT ![acc.ps.cursor] = d.lifetime],
             sizes |-> [acc.ps.sizes EXCEPT ![acc.ps.cursor] = d.size],
             cursor |-> (acc.ps.cursor + PARTICLE_COUNT - 1) % PARTICLE_COUNT],
     born |-> [acc.born EXCEPT ![acc.ps.cursor] = acc.emitted + 1],
     emitted |-> acc.emitted + 1]
\* mutant: the cursor is not advanced
EmitOneStuck(acc, at, d) ==
    [ps |-> [positions |-> [acc.ps.positions EXCEPT ![acc.ps.cursor] = Add3(at, d.jit)],
             velocities |-> [acc.ps.velocities EXCEPT ![acc.ps.cursor] = d.vel],
             ages |-> [acc.ps.ages EXCEPT ![acc.ps.cursor] = 0],
             lifetimes |-> [acc.ps.lifetimes EXCEPT ![acc.ps.cursor] = d.lifetime],
             sizes |-> [acc.ps.sizes EXCEPT ![acc.ps.cursor] = d.size],
             cursor |-> acc.ps.cursor],
     born |-> [acc.born EXCEPT ![acc.ps.cursor] = acc.emitted + 1],
     emitted |-> acc.emitted + 1]
\* one iteration of the emission loop: write pool[cursor], advance the cursor
EmitOne(acc, at, d) ==
    [ps |-> [positions |-> [acc.ps.positions EXCEPT ![acc.ps.cursor] = Add3(at, d.jit)],
             velocities |-> [acc.ps.velocities EXCEPT ![acc.ps.cursor] = d.vel],
             ages |-> [acc.ps.ages EXCEPT ![acc.ps.cursor] = 0],
             lifetimes |-> [acc.ps.lifetimes EXCEPT ![acc.ps.cursor] = d.lifetime],
             sizes |-> [acc.ps.sizes EXCEPT ![acc.ps.cursor] = d.size],
             cursor |-> (acc.ps.cursor + 1) % PARTICLE_COUNT],
     born |-> [acc.born EXCEPT ![acc.ps.cursor] = acc.emitted + 1],
     emitted |-> acc.emitted + 1]

\* for (let i = 0; i < EMISSION_RATE; i++), for emission slot i
RECURSIVE EmitLoop(_, _, _, _, _)
EmitLoop(n, acc, at, seed, i) ==
    IF n > EMISSION_RATE THEN acc
    ELSE EmitLoop(n + 1, CHOOSE v \in {EmitOne(acc, at, DrawOf(seed, i, n))} : TRUE,
                  at, seed, i)

\* mutant: a star is freed only when twice its duration has passed
ElapsedLate(s, t) == t - s.startTime >= 2 * s.duration
\* progress >= 1, progress = age / s.duration
Elapsed(s, t) == t - s.startTime >= s.duration

\* stars.current.forEach: acc = [ps, born, emitted, stars]
RECURSIVE StarLoop(_, _, _, _)
StarLoop(i, acc, t, draws) ==
    IF i > STAR_POOL_SIZE THEN acc
    ELSE LET s == acc.stars[i]
         IN  IF ~s.active THEN StarLoop(i + 1, acc, t, draws)
             ELSE IF Elapsed(s, t)
             THEN StarLoop(i + 1, [acc EXCEPT !.stars[i].active = FALSE], t, draws)
             ELSE LET e == CHOOSE v \in {EmitLoop(1, [ps |-> acc.ps, born |-> acc.born,
                                                       emitted |-> acc.emitted],
                                                  LerpVectors(s.startPos, s.endPos,
                                                              t - s.startTime, s.duration),
                                                  draws, i)} : TRUE
                  IN  StarLoop(i + 1, [ps |-> e.ps, born |-> e.born, emitted |-> e.emitted,
                                      stars |-> acc.stars], t, draws)

\* mutant: a particle also moves in the frame in which its age reaches 1
AgeSlotMovesLast(q, n, delta) ==
    IF q.ages[n] >= AGE_ONE THEN [pos |-> q.positions[n], age |-> q.ages[n]]
    ELSE [pos |-> Add3(q.positions[n], q.velocities[n]),
          age |-> Min(AGE_ONE, q.ages[n] + (delta * AGE_ONE) \div q.lifetimes[n])]
\* mutant: a dead particle keeps drifting, and the last step is not cut to 1
AgeSlotDrifting(q, n, delta) ==
    IF q.ages[n] >= AGE_ONE
    THEN [pos |-> Add3(q.positions[n], q.velocities[n]), age |-> q.ages[n]]
    ELSE LET a == q.ages[n] + (delta * AGE_ONE) \div q.lifetimes[n]
         IN  IF a >= AGE_ONE THEN [pos |-> q.positions[n], age |-> a]
             ELSE [pos |-> Add3(q.positions[n], q.velocities[n]), age |-> a]
\* "2. Update Particles", for one slot
AgeSlot(q, n, delta) ==
    IF q.ages[n] >= AGE_ONE THEN [pos |-> q.positions[n], age |-> q.ages[n]]
    ELSE LET a == q.ages[n] + (delta * AGE_ONE) \div q.lifetimes[n]
         IN  IF a >= AGE_ONE THEN [pos |-> q.positions[n], age |-> AGE_ONE]
             ELSE [pos |-> Add3(q.positions[n], q.velocities[n]), age |-> a]

UpdateParticles(q, delta) ==
    [q EXCEPT !.positions = [n \in Slots |-> AgeSlot(q, n, delta).pos],
              !.ages = [n \in Slots |-> AgeSlot(q, n, delta).age]]

\* the frame callback, called `delta` after the last frame with the random
\* sequence `draws`
StarFrameOf(delta, draws) ==
    /\ \E r \in {StarLoop(1, [ps |-> particleSystem, born |-> born, emitted |-> emitted, stars |-> stars],
                           time + delta, draws)} :
            /\ time' = time + delta
            /\ stars' = r.stars
            /\ particleSystem' = UpdateParticles(r.ps, delta)
            /\ born' = r.born
            /\ emitted' = r.emitted
    /\ UNCHANGED perfOffset

\* useFrame callback of ShootingStarEffect
StarFrame ==
    /\ time < MaxTime
    /\ emitted < MaxEmitted
    /\ \E delta \in FrameTimes(time), draws \in Seeds : StarFrameOf(delta, draws)

\* Runs in which frames keep coming: the page triggers stars during the first
\* LastTrigger tenths of a second, and frames are followed until every star
\* has been freed.
EarlyTrigger ==
    /\ time <= LastTrigger
    /\ Trigger
SteadyDeltas == {4, 16}
FramesDue == time <= LastTrigger \/ \E i \in StarIds : stars[i].active
SteadyFrame ==
    /\ FramesDue
    /\ \E delta \in SteadyDeltas : StarFrameOf(delta, 0)

-----------------------------------------------------------------------------
\* ChaoticTrajectoryIntegrator: LorenzAttractor (src/Visuals.tsx:377-464).
\* Coordinates are in hundredths, dt in thousandths, colour channels as the
\* bytes of the hex colours, divisions round down.

TrajIds == 1..TrajCount
Samples == 0..(trailLength - 1)
LUnit == 100
sigma == 10
rho == 28 * LUnit
\* beta = 8 / 3
betaNum == 8
betaDen == 3
\* x * ZOOM, ZOOM = 0.35
Zoom(c) == (c * 35) \div 100
zShift == 25 * LUnit
Sample(c) == <<Zoom(c.x), Zoom(c.y), Zoom(c.z - zShift)>>

colorSlow == <<29, 78, 216>>
ColorFast(th) == IF th = "dark" THEN <<255, 255, 255>> ELSE <<219, 39, 119>>

\* a typed array as a function on 0..length-1; arr.fill(v)
Filled(len, v) == [n \in 0..(len - 1) |-> v]
\* arr.copyWithin(target, start, end), 0 <= target, start <= end <= length
CopyWithin(arr, target, start, end) ==
    [n \in DOMAIN arr |->
        IF n >= target /\ n < target + (end - start) THEN arr[start + (n - target)] ELSE arr[n]]
\* arr[3 k], arr[3 k + 1], arr[3 k + 2] := v
SetSample(arr, k, v) ==
    [n \in DOMAIN arr |-> IF n \div 3 = k THEN v[(n % 3) + 1] ELSE arr[n]]
GetSample(arr, k) == <<arr[3 * k], arr[3 * k + 1], arr[3 * k + 2]>>

\* mutant: the history is left at the zeros of new Float32Array
FillHistoryOrigin(i, arr, c) == arr
\* the for loop at 399-403
RECURSIVE FillHistory(_, _, _)
FillHistory(i, arr, c) ==
    IF i >= trailLength THEN arr ELSE FillHistory(i + 1, SetSample(arr, i, Sample(c)), c)

\* the draws of one trajectory: x, y in [-20, 20), z in [0, 40), dt in [0.004, 0.006)
Starts == { [x |-> 1200, y |-> 0 - 700, z |-> 2500],
            [x |-> 0 - 2000, y |-> 1999, z |-> 0] }
Dts == {4, 5}
Themes == {"dark", "light"}

NewTrajectory(c, dt) ==
    [current |-> c,
     history |-> FillHistory(0, Filled(trailLength * 3, 0), c),
     baseColors |-> Filled(trailLength * 3, colorSlow[1]),
     dt |-> dt]

LorenzInit ==
    /\ theme \in Themes
    /\ \E c \in [TrajIds -> Starts], dt \in [TrajIds -> Dts] :
          /\ trajectories = [i \in TrajIds |-> NewTrajectory(c[i], dt[i])]
          /\ trail = [i \in TrajIds |-> <<Sample(c[i])>>]
    /\ groupRef = [attached |-> FALSE, rotationY |-> 0]
    /\ colorsArr = [i \in TrajIds |-> Filled(trailLength * 3, 0)]

\* React commits the group and its lines: groupRef.current is set
Attach ==
    /\ ~groupRef.attached
    /\ groupRef' = [groupRef EXCEPT !.attached = TRUE]
    /\ UNCHANGED <<trajectories, colorsArr, theme, trail>>

\* the theme prop changes; the effect at 386 sets colorFast
SetTheme ==
    /\ \E th \in Themes \ {theme} : theme' = th
    /\ UNCHANGED <<trajectories, groupRef, colorsArr, trail>>

\* mutant: dy is computed from the x already advanced by dx
IncrementsInTurn(c, dt) ==
    [dx |-> (sigma * (c.y - c.x) * dt) \div 1000,
     dy |-> ((((c.x + (sigma * (c.y - c.x) * dt) \div 1000) * (rho - c.z)) \div LUnit - c.y)
             * dt) \div 1000,
     dz |-> (((c.x * c.y) \div LUnit - (betaNum * c.z) \div betaDen) * dt) \div 1000]
\* line 420: the three increments, all from the pre-step x, y, z
Increments(c, dt) ==
    [dx |-> (sigma * (c.y - c.x) * dt) \div 1000,
     dy |-> (((c.x * (rho - c.z)) \div LUnit - c.y) * dt) \div 1000,
     dz |-> (((c.x * c.y) \div LUnit - (betaNum * c.z) \div betaDen) * dt) \div 1000]
\* line 421
Stepped(c, d) == [x |-> c.x + d.dx, y |-> c.y + d.dy, z |-> c.z + d.dz]

\* Math.min(1, Math.sqrt(dx*dx + dy*dy + dz*dz) / 1.2), in thousandths
SpeedAlpha(d) ==
    Min(1000, (ISqrtIn(d.dx * d.dx + d.dy * d.dy + d.dz * d.dz, 0, 20 * LUnit) * 1000) \div 120)
\* tempColor.lerpColors(colorSlow, colorFast, alpha)
LerpColors(a, b, alpha) == [ch \in 1..3 |-> a[ch] + ((b[ch] - a[ch]) * alpha) \div 1000]

\* opacityCurve[k] = Math.max(0, 1 - Math.pow(k / trailLength, 0.4)), in twentieths:
\* the power is the largest r / 20 with (r / 20)^5 <= (k / trailLength)^2
CurveUnit == 20
Pow5(r) == r * r * r * r * r
PowTwoFifths(k) ==
    CHOOSE r \in 0..CurveUnit :
        /\ Pow5(r) * trailLength * trailLength <= k * k * Pow5(CurveUnit)
        /\ \A q \in (r + 1)..CurveUnit :
              Pow5(q) * trailLength * trailLength > k * k * Pow5(CurveUnit)
opacityCurve == [k \in Samples |-> Max(0, CurveUnit - PowTwoFifths(k))]

\* mutant: the positions are not shifted before the new sample is written
ShiftHistoryNone(arr) == arr
\* traj.history.copyWithin(3, 0, (trailLength - 1) * 3)
ShiftHistory(arr) == CopyWithin(arr, 3, 0, (trailLength - 1) * 3)

\* the body of trajectories.forEach for one trajectory
StepTrajectory(traj, th) ==
    LET d == Increments(traj.current, traj.dt)
        c == Stepped(traj.current, d)
        tempColor == LerpColors(colorSlow, ColorFast(th), SpeedAlpha(d))
    IN  [current |-> c,
         history |-> SetSample(ShiftHistory(traj.history), 0, Sample(c)),
         baseColors |-> SetSample(CopyWithin(traj.baseColors, 3, 0, (trailLength - 1) * 3),
                                  0, tempColor),
         dt |-> traj.dt]
\* lines 434-439
LineColors(traj) ==
    [n \in 0..(trailLength * 3 - 1) |-> (traj.baseColors[n] * opacityCurve[n \div 3]) \div CurveUnit]

\* useFrame callback of LorenzAttractor
LorenzFrame ==
    /\ groupRef.rotationY < MaxSteps
    /\ IF ~groupRef.attached
       THEN UNCHANGED <<trajectories, groupRef, colorsArr, trail>>
       ELSE \E next \in {[i \in TrajIds |-> StepTrajectory(trajectories[i], theme)]} :
              /\ groupRef' = [groupRef EXCEPT !.rotationY = @ + 1]
              /\ trajectories' = next
              /\ colorsArr' = [i \in TrajIds |-> LineColors(next[i])]
              /\ trail' = [i \in TrajIds |-> Append(trail[i], Sample(next[i].current))]
    /\ UNCHANGED theme

-----------------------------------------------------------------------------
\* NeuralNetworkEffect of src/PlotComponents.tsx (859-1031): the variant with
\* the lastBroken array.  Lengths, the lattice of the cut geometry and the
\* clock are as for the variant of src/Visuals.tsx.

\* radius = 8, z bound 2, connectionDistance = 3.5, cutRadius = 0.2
plotRadius == 8
plotZBound == 2
connectionCells == 35
cutCells == 2
\* lastBroken is filled with -1000 (seconds)
NeverBroken == 0 - 10000
\* the connection is hidden for 0.3 s and fades in until 0.8 s after a break
KILL_TIME == 3
RECOVER_TIME == 8

PlotVertex(pos, brightness) == [pos |-> pos, brightness |-> brightness]

\* the state after construction, sites[i] being the random draws of node i
PlotStart(sites) ==
    [positions |-> [i \in Nodes |-> <<sites[i].x, sites[i].y, sites[i].z>>],
     velocities |-> [i \in Nodes |-> <<sites[i].vx, sites[i].vy, sites[i].vz>>],
     lastBroken |-> [k \in Pairs |-> NeverBroken],
     lineBuf |-> [n \in 1..BufVertices |-> PlotVertex(<<0, 0, 0>>, 0)],
     vertexIndex |-> 0,
     drawCount |-> 0,
     drawn |-> << >>,
     now |-> 0,
     pointer |-> Away]

PlotInit == plotNet = PlotStart([i \in Nodes |-> InitSite(i)])

\* "Update particles": steering, move and save back, for node i
PlotNode(st, i) ==
    LET p == st.positions[i]
        v == st.velocities[i]
        w == <<Steer(p[1], v[1], plotRadius * World),
               Steer(p[2], v[2], (plotRadius * 8 * World) \div 10),
               Steer(p[3], v[3], plotZBound * World)>>
    IN  [st EXCEPT !.positions[i] = <<p[1] + w[1], p[2] + w[2], p[3] + w[3]>>,
                   !.velocities[i] = w]

\* distToMouseSq < cutRadiusSq && t > 0.1 && t < 0.9, t being the projection
\* of the pointer on the segment in the x-y plane (0 / 0 for a segment of no
\* extent there, for which every comparison fails)
PlotCut(ray, A, B) ==
    LET ex == B[1] - A[1]
        ey == B[2] - A[2]
        den == Sq(ex) + Sq(ey)
        num == (ray.x - A[1]) * ex + (ray.y - A[2]) * ey
        dA == Sq(ray.x - A[1]) + Sq(ray.y - A[2])
    IN  /\ den > 0
        /\ 10 * num > den /\ 10 * num < 9 * den
        /\ dA * den - num * num < cutCells * cutCells * den

\* recoveryAlpha, in thousandths: 0 for 0.3 s, then the smooth step of
\* (timeSinceBreak - 0.3) / 0.5, then 1
RecoveryAlpha(since) ==
    IF since < KILL_TIME THEN 0
    ELSE IF since < RECOVER_TIME
    THEN LET r == ((since - KILL_TIME) * 1000) \div (RECOVER_TIME - KILL_TIME)
         IN  (((r * r) \div 1000) * (3000 - 2 * r)) \div 1000
    ELSE 1000

\* alpha * alpha * recoveryAlpha, alpha = max(0.05, 1 - dist / connectionDistance)
Brightness(distSq, rec) ==
    LET alpha == Max(50, 1000 - (ISqrt(100 * distSq) * 100) \div connectionCells)
    IN  (((alpha * alpha) \div 1000) * rec) \div 1000

\* the body of the inner loop, "Check connections", for the pair i, j: it
\* reads positions[j] as the array holds it at this point of the outer loop
PlotPair(st, i, j, ray, t) ==
    LET Pi == st.positions[i]
        Pj == st.positions[j]
        A == LatPos(Pi)
        B == LatPos(Pj)
        distSq == DistSq(A, B)
        k == <<i, j>>
    IN  IF distSq >= connectionCells * connectionCells THEN st
        ELSE LET broken == IF PlotCut(ray, A, B) THEN t ELSE st.lastBroken[k]
                 rec == RecoveryAlpha(t - broken)
                 b == Brightness(distSq, rec)
                 n == st.vertexIndex
             IN  IF rec > 10
                 THEN [st EXCEPT !.lastBroken[k] = broken,
                                 !.lineBuf[n + 1] = PlotVertex(Pi, b),
                                 !.lineBuf[n + 2] = PlotVertex(Pj, b),
                                 !.vertexIndex = n + 2,
                                 !.drawn = Append(st.drawn, k)]
                 ELSE [st EXCEPT !.lastBroken[k] = broken]

\* for (let j = i + 1; j < count; j++)
RECURSIVE PlotInner(_, _, _, _, _)
PlotInner(st, i, j, ray, t) ==
    IF j > NodeCount THEN st
    ELSE PlotInner(CHOOSE v \in {PlotPair(st, i, j, ray, t)} : TRUE, i, j + 1, ray, t)

\* for (let i = 0; i < count; i++): node i is updated, then its pairs with the
\* nodes after it are checked
RECURSIVE PlotOuter(_, _, _, _)
PlotOuter(st, i, ray, t) ==
    IF i > NodeCount THEN st
    ELSE PlotOuter(PlotInner(CHOOSE v \in {PlotNode(st, i)} : TRUE, i, i + 1, ray, t),
                   i + 1, ray, t)

\* the frame callback as a function of the state it finds
PlotFrameOf(st, ray, t) ==
    LET r == CHOOSE v \in {PlotOuter([st EXCEPT !.vertexIndex = 0, !.drawn = << >>,
                                               !.now = t, !.pointer = ray],
                                     1, ray, t)} : TRUE
    IN  [r EXCEPT !.drawCount = r.vertexIndex]

\* useFrame callback of NeuralNetworkEffect (PlotComponents.tsx:907)
PlotTick ==
    /\ plotNet.now < MaxNow
    /\ \E ray \in Pointers, dt \in Deltas : plotNet' = PlotFrameOf(plotNet, ray, plotNet.now + dt)

-----------------------------------------------------------------------------
\* Specifications, one per effect: the effects are separate components, each
\* with its own frame callback and its own state.

\* a LorenzAttractor just constructed, with fixed draws
LorenzIdle ==
    /\ theme = "dark"
    /\ trajectories = [i \in TrajIds |-> NewTrajectory([x |-> 1200, y |-> 0 - 700, z |-> 2500], 4)]
    /\ trail = [i \in TrajIds |-> <<Sample([x |-> 1200, y |-> 0 - 700, z |-> 2500])>>]
    /\ groupRef = [attached |-> FALSE, rotationY |-> 0]
    /\ colorsArr = [i \in TrajIds |-> Filled(trailLength * 3, 0)]

Init == NetInit /\ PoolInit /\ perfOffset = 0 /\ LorenzIdle /\ PlotInit
Next == Tick /\ UNCHANGED <<poolVars, lorenzVars, plotVars>>
Spec == Init /\ [][Next]_vars

PoolNext ==
    \/ Trigger /\ UNCHANGED <<netVars, lorenzVars, plotVars>>
    \/ StarFrame /\ UNCHANGED <<netVars, lorenzVars, plotVars>>
InitPool == NetInit /\ PoolInit /\ perfOffset \in Offsets /\ LorenzIdle /\ PlotInit
SpecPool == InitPool /\ [][PoolNext]_vars

PoolLiveNext ==
    \/ EarlyTrigger /\ UNCHANGED <<netVars, lorenzVars, plotVars>>
    \/ SteadyFrame /\ UNCHANGED <<netVars, lorenzVars, plotVars>>
\* the host calls the frame callback on every animation frame: a step that
\* advances the clock is a SteadyFrame, and one is possible exactly while
\* FramesDue
StarFrameDue == FramesDue /\ time' \in {time + d : d \in SteadyDeltas}
SpecPoolLive == InitPool /\ [][PoolLiveNext]_vars /\ WF_time(StarFrameDue)

PlotNext == PlotTick /\ UNCHANGED <<netVars, poolVars, lorenzVars>>
SpecPlot == Init /\ [][PlotNext]_vars

LorenzNext ==
    \/ Attach /\ UNCHANGED <<netVars, poolVars, plotVars>>
    \/ SetTheme /\ UNCHANGED <<netVars, poolVars, plotVars>>
    \/ LorenzFrame /\ UNCHANGED <<netVars, poolVars, plotVars>>
InitLorenz == NetInit /\ PoolInit /\ perfOffset = 0 /\ LorenzInit /\ PlotInit
SpecLorenz == InitLorenz /\ [][LorenzNext]_vars

\* two nodes drawn at the same place with the same velocity
CoincidentInit == NetStart([i \in Nodes |-> IF i = 2 THEN InitSite(1) ELSE InitSite(i)])
InitCoincident == CoincidentInit /\ PoolInit /\ perfOffset = 0 /\ LorenzIdle /\ PlotInit
SpecCoincident == InitCoincident /\ [][Next]_vars

\* a long pair with a node under the pointer: nodes 1 and 2 are drawn at rest
\* 3.9 apart on a line that passes the pointer (0.1, 0) beyond node 1, which
\* is 0.3 from it
FaintSite(i) ==
    CASE i = 1 -> Site(4, 0, 0, 0, 0, 0)
      [] i = 2 -> Site(43, 0, 0, 0, 0, 0)
      [] OTHER -> InitSite(i)
FaintInit == NetStart([i \in Nodes |-> FaintSite(i)])
InitFaint == FaintInit /\ PoolInit /\ perfOffset = 0 /\ LorenzIdle /\ PlotInit
SpecFaint == InitFaint /\ [][Next]_vars

\* frames with valid and with invalid pointers
InvalidNext ==
    \/ Tick /\ UNCHANGED <<poolVars, lorenzVars, plotVars>>
    \/ NaNTick /\ UNCHANGED <<poolVars, lorenzVars, plotVars>>
SpecInvalid == Init /\ [][InvalidNext]_vars

RatesNext == RatesTick /\ UNCHANGED <<poolVars, lorenzVars, plotVars>>
InitRates == RatesInit /\ PoolInit /\ perfOffset = 0 /\ LorenzIdle /\ PlotInit
SpecRates == InitRates /\ [][RatesNext]_vars

\* the host calls the frame callback on every animation frame, for as long as
\* the clock of the model runs: a step that advances the clock is a Tick, and
\* one is possible exactly while now < MaxNow
FrameDue == now < MaxNow /\ now' \in {now + dt : dt \in Deltas}
SpecLive == Init /\ [][Next]_vars /\ WF_now(FrameDue)

MotionNext == MotionTick /\ UNCHANGED <<poolVars, lorenzVars, plotVars>>
InitMotion == MotionInit /\ PoolInit /\ perfOffset = 0 /\ LorenzIdle /\ PlotInit
SpecMotion == InitMotion /\ [][MotionNext]_vars

-----------------------------------------------------------------------------
\* Properties of NeuralNetworkEffect.

PairA(k) == LatPos(pointPositions[k[1]])
PairB(k) == LatPos(pointPositions[k[2]])
PairDistSq(k) == DistSq(PairA(k), PairB(k))
\* the pair is farther apart than maxConnectionDistance (4 world units)
TooFar(k) == PairDistSq(k) > MAX_CONN_SQ
\* the last edge pass got past both `continue`s for pair k
Visited(k) ==
    /\ now > 0
    /\ ~TooFar(k)
    /\ pointOpacities[k[1]] > ONE \div 100
    /\ pointOpacities[k[2]] > ONE \div 100
Has(k) == k \in DOMAIN brokenRef
\* the parameter of the closest point lies strictly inside (0.1, 0.9)
InsideWindow(k) ==
    LET h == DistanceSqToSegment(pointer, PairA(k), PairB(k))
    IN  10 * h.tn > h.td /\ 10 * h.tn < 9 * h.td
Zero(p) == p.vx = 0 /\ p.vy = 0 /\ p.vz = 0

\* C1: a record is created in a frame only if the hit's parameter t lies
\* strictly inside (0.1, 0.9), and a visible, in-range pair without a record cut
\* inside that window has a record at the end of the same frame.
C1_BreakOnlyInsideWindow ==
    \A k \in Pairs :
        /\ (Has(k) /\ brokenRef[k].brokenAt = now) => InsideWindow(k)
        /\ (Visited(k) /\ SegmentCut(pointer, PairA(k), PairB(k)) /\ InsideWindow(k)) => Has(k)

\* C2: an Alive node becomes Dying exactly in a frame whose ray hits it, with
\* hitTime = now and zero velocity; while it is Dying no frame changes hitTime;
\* it becomes Alive again only in a frame with now - hitTime >= RESPAWN_TIME.
C2_HitOnceRespawnLate ==
    [][\A i \in Nodes :
        LET p == particles[i]
            q == particles'[i]
        IN  /\ (p.status = 0) => ((q.status = 1) <=> NodeHit(pointer', p))
            /\ (p.status = 0 /\ q.status = 1) => (q.hitTime = now' /\ Zero(q))
            /\ (p.status = 1 /\ q.status = 1) => q.hitTime = p.hitTime
            /\ (p.status = 1 /\ q.status = 0) => now' - p.hitTime >= RESPAWN_TIME
            /\ (p.status = 0 /\ q.status = 0) => q.hitTime = p.hitTime]_vars

\* a node that was hit has respawned
C2_Witness == \E i \in Nodes : particles[i].status = 0 /\ particles[i].hitTime > 0

\* C3: the draw range is even and at most 2 N (N - 1).
C3_DrawCountEvenBounded ==
    /\ drawCount % 2 = 0
    /\ drawCount <= 2 * NodeCount * (NodeCount - 1)
    /\ drawCount <= BufVertices

\* three pairs are in the severed phase at once
C3_Witness == drawCount >= 12 /\ \A k \in {<<1, 2>>, <<1, 3>>, <<2, 3>>} : emitCount[k] = 4

\* C4: a pair farther apart than maxConnectionDistance writes no vertex.
C4_OutOfRangeEmitsNothing ==
    \A k \in Pairs : (now > 0 /\ TooFar(k)) => emitCount[k] = 0

\* an out-of-range pair under the pointer ray that still has a record
C4_Witness ==
    \E k \in Pairs : /\ now > 0 /\ TooFar(k) /\ Has(k)
                     /\ SegmentCut(pointer, PairA(k), PairB(k))

\* C8: every record of the map is at most cooldownDuration old at the end of a
\* frame, for every pair.
C8_RecordsAreRecent ==
    \A k \in DOMAIN brokenRef : now - brokenRef[k].brokenAt <= COOLDOWN

\* C9 (as stated): no frame takes a pair from the invisible phase (record of
\* age >= BREAK_DURATION) to the severed phase (record of age < BREAK_DURATION).
C9_NoInvisibleToSevered ==
    [][\A k \in Pairs :
        (Has(k) /\ now - brokenRef[k].brokenAt >= BREAK_DURATION)
            => ~(k \in DOMAIN brokenRef' /\ now' - brokenRef'[k].brokenAt < BREAK_DURATION)]_vars

\* C9 (amended): a record appears only with brokenAt = now; it is kept
\* unchanged, or removed by a frame that finds it older than COOLDOWN, which
\* may cut the pair again at once; a pair writes four vertices exactly while
\* it is visited with a record younger than BREAK_DURATION, nothing while its
\* record is older, and two vertices only without a record.
C9_BreakHealCycle ==
    [][\A k \in Pairs :
        LET had == k \in DOMAIN brokenRef
            has == k \in DOMAIN brokenRef'
        IN  /\ (has /\ ~had) => brokenRef'[k].brokenAt = now'
            /\ (has /\ had) =>
                  \/ brokenRef'[k] = brokenRef[k]
                  \/ /\ now' - brokenRef[k].brokenAt > COOLDOWN
                     /\ brokenRef'[k].brokenAt = now'
                     /\ k \in healed'
            /\ (had /\ ~has) => (now' - brokenRef[k].brokenAt > COOLDOWN /\ k \in healed')
            /\ (emitCount'[k] = 4) => (has /\ now' - brokenRef'[k].brokenAt < BREAK_DURATION)
            /\ (has /\ now' - brokenRef'[k].brokenAt >= BREAK_DURATION) => emitCount'[k] = 0
            /\ (has /\ now' - brokenRef'[k].brokenAt < BREAK_DURATION /\ Visited(k)')
                  => emitCount'[k] = 4
            /\ (emitCount'[k] = 2) => ~has]_vars

\* a frame removed an expired record and cut the pair again
C9_Witness == \E k \in healed : Has(k) /\ brokenRef[k].brokenAt = now /\ emitCount[k] = 4

\* C10 (as stated): the frame that deletes an expired record leaves the pair
\* without a record and draws nothing for it; the pair is normal from the next
\* frame on.
C10_NormalFromNextFrame ==
    \A k \in healed : ~Has(k) /\ emitCount[k] = 0

\* C10 (amended): a frame deletes the record of exactly the visited pairs it
\* finds older than COOLDOWN, and treats the pair as normal in that same
\* frame: it is hit-tested and, unless cut again, drawn as an intact edge.
C10_HealsInSameFrame ==
    [][\A k \in Pairs :
        /\ (k \in healed') <=>
              (Has(k) /\ now' - brokenRef[k].brokenAt > COOLDOWN /\ Visited(k)')
        /\ (k \in healed') =>
              IF SegmentCut(pointer', PairA(k)', PairB(k)')
              THEN /\ k \in DOMAIN brokenRef'
                   /\ brokenRef'[k].brokenAt = now'
                   /\ emitCount'[k] = 4
              ELSE /\ k \notin DOMAIN brokenRef'
                   /\ emitCount'[k] = IF DistAlpha(PairDistSq(k)') > ONE \div 100 THEN 2 ELSE 0]_vars

\* a frame removed an expired record and drew the pair intact
C10_Witness == \E k \in healed : ~Has(k) /\ emitCount[k] = 2

\* ---- C5 ----
\* The pool holds the most recent emissions only: the emissions that last wrote
\* the slots are exactly the min(emitted, PARTICLE_COUNT) latest ones, each in
\* one slot; and while nothing has aged (the clock still reads 0), the live
\* particles (age < 1) are exactly those.
LatestEmissions == (Max(0, emitted - PARTICLE_COUNT) + 1)..emitted
C5_PoolKeepsMostRecent ==
    /\ {born[n] : n \in Slots} \ {0} = LatestEmissions
    /\ \A m, n \in Slots : born[m] = born[n] /\ born[m] # 0 => m = n
    /\ time = 0 => \A n \in Slots : particleSystem.ages[n] < AGE_ONE <=> born[n] # 0
\* more emissions than slots with no aging in between: every slot is live
C5_Witness ==
    /\ time = 0
    /\ emitted > PARTICLE_COUNT
    /\ \A n \in Slots : particleSystem.ages[n] = 0

\* ---- C6 ----
\* Every history buffer has trailLength samples; after k steps slot s holds
\* the sample of step k - s for s < k and the starting position for s >= k.
StepsDone(i) == Len(trail[i]) - 1
C6_TrailAlwaysFull ==
    \A i \in TrajIds :
        /\ DOMAIN trajectories[i].history = 0..(3 * trailLength - 1)
        /\ \A s \in Samples :
              GetSample(trajectories[i].history, s) = trail[i][Max(1, Len(trail[i]) - s)]
\* a trail one step short of full: the last slot still holds the start, which
\* is not the origin, and the slots before it hold later samples
C6_Witness ==
    \E i \in TrajIds :
        /\ StepsDone(i) = trailLength - 1
        /\ GetSample(trajectories[i].history, trailLength - 1) = trail[i][1]
        /\ trail[i][1] # <<0, 0, 0>>
        /\ \A s \in 0..(trailLength - 2) : GetSample(trajectories[i].history, s) # trail[i][1]

\* ---- C7 ----
\* In a run without pointer hits, at every frame up to the 10,000th, no Alive
\* node is further than the soft bound plus 0.1 from the centre on any axis.
Slack == Cell
C7_StaysNearBounds ==
    \A i \in Nodes :
        particles[i].status = 0 =>
            /\ Abs(particles[i].x) <= xBound + Slack
            /\ Abs(particles[i].y) <= yBound + Slack
            /\ Abs(particles[i].z) <= zBoundF + Slack
\* the last frame of such a run, every node Alive, one of them faster than any
\* spawn speed after its turns at the bounds
C7_Witness ==
    /\ now = MotionTicks
    /\ \A i \in Nodes : particles[i].status = 0
    /\ \E i \in Nodes : Abs(particles[i].vz) > maxSpawnSpeed

\* ---- C11 ----
\* A pair whose endpoints coincide gets no record: no record is created in a
\* frame for a pair of zero length, and no record carries an undefined ratio.
SamePlace(k) == pointPositions[k[1]] = pointPositions[k[2]]
C11_ZeroLengthGuarded ==
    \A k \in Pairs :
        Has(k) => /\ brokenRef[k].ratio # NaN
                  /\ brokenRef[k].brokenAt = now => ~SamePlace(k)

\* ---- C12 ----
\* A frame whose pointer is NaN hits nothing: every Alive node stays Alive and
\* is steered and moved, a Dying node respawns exactly when its time is up, no
\* record is created, and the records, the line buffer and the draw range are
\* those of a frame with the pointer away from the scene.
AwayPass ==
    EdgeLoop(1, 2, [broken |-> brokenRef, verts |-> << >>,
                    emit |-> [k \in Pairs |-> 0], healed |-> {}],
             pointPositions', pointColors', pointOpacities', Away, now')
C12_InvalidPointerHitsNothing ==
    [][pointer' = NaNRay =>
        /\ now' > now
        /\ \A i \in Nodes :
              /\ particles[i].status = 0 =>
                    particles'[i] = UpdateNode(particles[i], Away, now', InitSite(i))
              /\ particles[i].status = 1 =>
                    (particles'[i].status = 0 <=> now' - particles[i].hitTime > RESPAWN_TIME)
        /\ DOMAIN brokenRef' \subseteq DOMAIN brokenRef
        /\ \E away \in {AwayPass} :
              /\ brokenRef' = away.broken
              /\ lineBuf' = WriteLines(lineBuf, away.verts)
              /\ drawCount' = Len(away.verts)]_vars
\* after a frame with a NaN pointer: a node is fading, a record exists and an
\* edge is drawn intact
C12_Witness ==
    /\ pointer = NaNRay
    /\ \E i \in Nodes : particles[i].status = 1
    /\ \E k \in Pairs : Has(k)
    /\ \E k \in Pairs : emitCount[k] = 2

\* ---- C14 ----
\* Two runs that tick at different rates and receive the same hits and cuts
\* agree, whenever both tick, on every node's status and opacity, on which
\* pairs have a record and on the phase of every record.
InRangeHere(k) == ~TooFar(k)
InRangeSlow(k) ==
    DistSq(LatPos(slow.pointPositions[k[1]]), LatPos(slow.pointPositions[k[2]])) <= MAX_CONN_SQ
HasSlow(k) == k \in DOMAIN slow.brokenRef
NodesAgree ==
    \A i \in Nodes :
        /\ particles[i].status = slow.particles[i].status
        /\ particles[i].hitTime = slow.particles[i].hitTime
        /\ pointOpacities[i] = slow.pointOpacities[i]
RecordsAgree(k) ==
    /\ Has(k) <=> HasSlow(k)
    /\ Has(k) /\ HasSlow(k) =>
          (now - brokenRef[k].brokenAt < BREAK_DURATION
              <=> slow.now - slow.brokenRef[k].brokenAt < BREAK_DURATION)
EulerStep(c, dt) ==
    [x |-> c.x + (10 * (c.y - c.x) * dt) \div 1000,
     y |-> c.y + (((c.x * (2800 - c.z)) \div 100 - c.y) * dt) \div 1000,
     z |-> c.z + (((c.x * c.y) \div 100 - (8 * c.z) \div 3) * dt) \div 1000]
Reference(i) ==
    /\ trail[i][1] = <<420, 0 - 245, 0>>
    /\ trajectories[i].dt = 4
    /\ groupRef.rotationY = 8
NearReference(c) ==
    /\ Abs(c.x - 691) <= 10
    /\ Abs(c.y + 536) <= 10
    /\ Abs(c.z - 2107) <= 10
C15_ForwardEuler ==
    [][groupRef'.rotationY # groupRef.rotationY =>
        \A i \in TrajIds :
            /\ trajectories'[i].current = EulerStep(trajectories[i].current, trajectories[i].dt)
            /\ trajectories'[i].dt = trajectories[i].dt
            /\ Reference(i)' => NearReference(trajectories'[i].current)]_vars
\* the reference run has taken its 8 steps
C15_Witness == \E i \in TrajIds : Reference(i) /\ NearReference(trajectories[i].current)

\* ---- C16 ----
\* A frame leaves every line-buffer entry at or beyond the new vertex count as
\* it was, and the draw range it sets is the number of vertices the pairs wrote.
RECURSIVE SumOver(_, _)
SumOver(f, S) ==
    IF S = {} THEN 0
    ELSE LET k == CHOOSE q \in S : TRUE IN f[k] + SumOver(f, S \ {k})
C16_TailLeftStale ==
    [][now' # now =>
        /\ \A n \in 1..BufVertices : n > drawCount' => lineBuf'[n] = lineBuf[n]
        /\ drawCount' = SumOver(emitCount', Pairs)]_vars
\* a frame has drawn fewer vertices than an earlier one: written entries lie
\* beyond the draw range
C16_Witness ==
    /\ drawCount > 0
    /\ \E n \in 1..BufVertices : n > drawCount /\ lineBuf[n].col.leg # "zero"

\* ---- C18 ----
\* A pair with an endpoint of opacity <= 0.01 in a frame writes no vertices in
\* that frame, and its record, or its having none, is as the frame found it,
\* wherever the pointer is.
Faded(i) == pointOpacities[i] <= 100
C18_InvisiblePairSkipped ==
    [][now' # now =>
        \A k \in Pairs :
            Faded(k[1])' \/ Faded(k[2])' =>
                /\ emitCount'[k] = 0
                /\ Has(k)' <=> Has(k)
                /\ Has(k) => brokenRef'[k] = brokenRef[k]]_vars
\* the pointer is on the segment of an in-range pair one end of which has
\* faded, and the pair has no record or one older than the cooldown: a hit
\* test would have given it a new record
C18_Witness ==
    \E k \in Pairs :
        /\ now > 0
        /\ ~TooFar(k)
        /\ Faded(k[1]) \/ Faded(k[2])
        /\ SegmentCut(pointer, PairA(k), PairB(k))
        /\ Has(k) => now - brokenRef[k].brokenAt > COOLDOWN

\* ---- C19 ----
\* After a frame an Alive node has opacity 1 and a Dying node has opacity
\* max(0, 1 - (now - hitTime) / FADE_DURATION), which is 0 from FADE_DURATION
\* after the hit on.
C19_OpacityLaw ==
    now > 0 =>
        \A i \in Nodes :
            /\ particles[i].status = 0 => pointOpacities[i] = 10000
            /\ particles[i].status = 1 /\ now - particles[i].hitTime < FADE_DURATION =>
                  pointOpacities[i] = 10000 - ((now - particles[i].hitTime) * 10000) \div FADE_DURATION
            /\ particles[i].status = 1 /\ now - particles[i].hitTime >= FADE_DURATION =>
                  pointOpacities[i] = 0
\* a Dying node is past its fade and not yet due to respawn
C19_Witness ==
    \E i \in Nodes :
        /\ particles[i].status = 1
        /\ now - particles[i].hitTime > FADE_DURATION
        /\ now - particles[i].hitTime < RESPAWN_TIME
        /\ pointOpacities[i] = 0

\* ---- C20 ----
\* An Alive node that a frame does not hit has each velocity component lowered
\* by 0.0002 if its coordinate is above the bound, raised by 0.0002 if it is
\* below minus the bound, and kept otherwise; its position advances by the new
\* velocity, without a clamp.
Nudged(c, v, bound) ==
    CASE c > bound -> v - 8
      [] c < 0 - bound -> v + 8
      [] OTHER -> v
C20_SteerThenMove ==
    [][now' # now =>
        \A i \in Nodes :
            particles[i].status = 0 /\ particles'[i].status = 0 =>
                /\ particles'[i].vx = Nudged(particles[i].x, particles[i].vx, xBound)
                /\ particles'[i].vy = Nudged(particles[i].y, particles[i].vy, yBound)
                /\ particles'[i].vz = Nudged(particles[i].z, particles[i].vz, zBoundF)
                /\ particles'[i].x = particles[i].x + particles'[i].vx
                /\ particles'[i].y = particles[i].y + particles'[i].vy
                /\ particles'[i].z = particles[i].z + particles'[i].vz]_vars
\* after a frame one coordinate is above its bound and another below minus its
\* bound, both still moving outwards, while a third is inside
C20_Witness ==
    /\ now > 0
    /\ \E i, j, l \in Nodes :
          /\ \/ particles[i].x > xBound /\ particles[i].vx > 0
             \/ particles[i].y > yBound /\ particles[i].vy > 0
             \/ particles[i].z > zBoundF /\ particles[i].vz > 0
          /\ \/ particles[j].x < 0 - xBound /\ particles[j].vx < 0
             \/ particles[j].y < 0 - yBound /\ particles[j].vy < 0
             \/ particles[j].z < 0 - zBoundF /\ particles[j].vz < 0
          /\ Abs(particles[l].x) < xBound

\* ---- C17 ----
\* With frames that keep coming, a Dying node hit early enough for the clock to
\* pass hitTime + RESPAWN_TIME becomes Alive again.  A frame leaves a Dying node
\* Dying while now - hitTime <= RESPAWN_TIME and makes it Alive, at drawn
\* coordinates advanced by the drawn velocity, in the first frame with
\* now - hitTime > RESPAWN_TIME.  The nodes are always the same NodeCount.
Due(i) == particles[i].status = 1 /\ now' - particles[i].hitTime > 30
AtSpawn(p, s) ==
    /\ p.x = s.x + s.vx /\ p.y = s.y + s.vy /\ p.z = s.z + s.vz
    /\ p.vx = s.vx /\ p.vy = s.vy /\ p.vz = s.vz
C17_DyingRespawns ==
    /\ [](DOMAIN particles = 1..NodeCount)
    /\ [][now' # now =>
            \A i \in Nodes :
                /\ particles[i].status = 1 /\ ~Due(i) =>
                      /\ particles'[i].status = 1
                      /\ particles'[i].x = particles[i].x
                      /\ particles'[i].vx = 0
                /\ Due(i) =>
                      /\ particles'[i].status = 0
                      /\ \E s \in Spawns : AtSpawn(particles'[i], s)]_vars
    /\ \A i \in Nodes :
          (particles[i].status = 1 /\ particles[i].hitTime + 30 < MaxNow)
              ~> particles[i].status = 0
\* a node is Alive again at its drawn place, in the frame that respawned it
C17_Witness ==
    \E i \in Nodes :
        /\ particles[i].status = 0
        /\ particles[i].hitTime > 0
        /\ now - particles[i].hitTime > 30
        /\ \E s \in Spawns : AtSpawn(particles[i], s)

\* ---- C21 ----
\* A node that is Dying after a frame, the frame that hit it included, has
\* velocity zero and the position it had before the frame, and the position
\* buffer holds that position.
C21_DyingStaysPut ==
    [][now' # now =>
        \A i \in Nodes :
            particles'[i].status = 1 =>
                /\ particles'[i].vx = 0 /\ particles'[i].vy = 0 /\ particles'[i].vz = 0
                /\ particles'[i].x = particles[i].x
                /\ particles'[i].y = particles[i].y
                /\ particles'[i].z = particles[i].z
                /\ pointPositions'[i] = <<particles[i].x, particles[i].y, particles[i].z>>]_vars
\* a node that was constructed moving is Dying, frames after its hit, where it
\* was constructed plus the one move before the hit
C21_Witness ==
    \E i \in Nodes :
        /\ particles[i].status = 1
        /\ now - particles[i].hitTime >= 2 * FADE_DURATION
        /\ InitSite(i).vx # 0
        /\ particles[i].vx = 0

\* ---- C22 ----
\* Every record has a ratio between 0.01 and 0.99.
C22_RatioInRange ==
    \A k \in Pairs : Has(k) => brokenRef[k].ratio >= 10 /\ brokenRef[k].ratio <= 990

\* ---- C23 ----
\* A visible, in-range pair whose record is younger than BREAK_DURATION has
\* four vertices in the buffer, at its place in the loop order: endpoint i and
\* the point i + (j - i) ratio shrink with the colour and alpha of i, endpoint j
\* and the point j + (i - j) (1 - ratio) shrink with the colour and alpha of j,
\* shrink being (1 - age / BREAK_DURATION)^3.
Offset(k) ==
    SumOver(emitCount, {q \in Pairs : q[1] < k[1] \/ (q[1] = k[1] /\ q[2] < k[2])})
EndAlpha(k, e) ==
    (Max(0, 10000 - 25 * ISqrt(100 * PairDistSq(k))) * pointOpacities[e]) \div 10000
Stub(a, b, r, age) ==
    a + ((((b - a) * r) \div 1000) * (4 - age) * (4 - age) * (4 - age)) \div 64
StubEnd(P, Q, r, age) ==
    <<Stub(P[1], Q[1], r, age), Stub(P[2], Q[2], r, age), Stub(P[3], Q[3], r, age)>>
C23_SeveredDrawsTwoStubs ==
    \A k \in Pairs :
        (Visited(k) /\ Has(k) /\ now - brokenRef[k].brokenAt < BREAK_DURATION) =>
            LET i == k[1]
                j == k[2]
                o == Offset(k)
                r == brokenRef[k].ratio
                age == now - brokenRef[k].brokenAt
            IN  /\ emitCount[k] = 4
                /\ lineBuf[o + 1] = [pos |-> pointPositions[i], col |-> pointColors[i],
                                     a |-> EndAlpha(k, i)]
                /\ lineBuf[o + 2] = [pos |-> StubEnd(pointPositions[i], pointPositions[j], r, age),
                                     col |-> pointColors[i], a |-> EndAlpha(k, i)]
                /\ lineBuf[o + 3] = [pos |-> pointPositions[j], col |-> pointColors[j],
                                     a |-> EndAlpha(k, j)]
                /\ lineBuf[o + 4] = [pos |-> StubEnd(pointPositions[j], pointPositions[i],
                                                     1000 - r, age),
                                     col |-> pointColors[j], a |-> EndAlpha(k, j)]
\* a pair cut off-centre, half-way through the severed phase, behind another
\* pair in the buffer, its ends differing in colour and alpha
C23_Witness ==
    \E k \in Pairs :
        /\ Visited(k) /\ Has(k)
        /\ now - brokenRef[k].brokenAt = 2
        /\ brokenRef[k].ratio # 500
        /\ Offset(k) > 0
        /\ emitCount[k] = 4
        /\ pointColors[k[1]] # pointColors[k[2]]
        /\ EndAlpha(k, k[1]) # EndAlpha(k, k[2])

\* ---- C24 ----
\* C24 (as stated): a visible, in-range pair without a record has two vertices
\* in the buffer, endpoint i then endpoint j, each with its endpoint's colour
\* and alpha = max(0, 1 - distance / 4) x opacity, if both alphas exceed 0.01,
\* and none otherwise.
FullSegmentAt(k) ==
    LET o == Offset(k)
    IN  /\ emitCount[k] = 2
        /\ lineBuf[o + 1] = [pos |-> pointPositions[k[1]], col |-> pointColors[k[1]],
                             a |-> EndAlpha(k, k[1])]
        /\ lineBuf[o + 2] = [pos |-> pointPositions[k[2]], col |-> pointColors[k[2]],
                             a |-> EndAlpha(k, k[2])]
C24_FullSegmentIfAlpha ==
    \A k \in Pairs :
        (Visited(k) /\ ~Has(k)) =>
            IF EndAlpha(k, k[1]) > 100 /\ EndAlpha(k, k[2]) > 100
            THEN FullSegmentAt(k)
            ELSE emitCount[k] = 0

\* C24 (amended): the pair has its two vertices in the buffer if the distance
\* factor max(0, 1 - distance / 4) alone exceeds 0.01, whatever the opacities of
\* its endpoints, and none otherwise.
BaseAlpha(k) == Max(0, 10000 - 25 * ISqrt(100 * PairDistSq(k)))
C24_FullSegmentIfNear ==
    \A k \in Pairs :
        (Visited(k) /\ ~Has(k)) =>
            IF BaseAlpha(k) > 100 THEN FullSegmentAt(k) ELSE emitCount[k] = 0
\* a full segment is in the buffer with a vertex alpha of 0.01 or less: a long
\* pair one end of which is fading
C24_Witness ==
    \E k \in Pairs :
        /\ Visited(k) /\ ~Has(k)
        /\ FullSegmentAt(k)
        /\ EndAlpha(k, k[1]) <= 100
        /\ EndAlpha(k, k[2]) > 100

\* ---- C25 ----
\* A step moves the sample and the colour of every slot k < trailLength - 1 to
\* slot k + 1, both buffers alike, and writes the new sample and the colour of
\* the new step into slot 0; what slot trailLength - 1 held is gone.
StepColor(i) ==
    LET d == [dx |-> trajectories'[i].current.x - trajectories[i].current.x,
              dy |-> trajectories'[i].current.y - trajectories[i].current.y,
              dz |-> trajectories'[i].current.z - trajectories[i].current.z]
    IN  LerpColors(colorSlow, ColorFast(theme), SpeedAlpha(d))
C25_BuffersShiftTogether ==
    [][groupRef'.rotationY # groupRef.rotationY =>
        \A i \in TrajIds :
            /\ \A k \in 0..(trailLength - 2) :
                  /\ GetSample(trajectories'[i].history, k + 1)
                        = GetSample(trajectories[i].history, k)
                  /\ GetSample(trajectories'[i].baseColors, k + 1)
                        = GetSample(trajectories[i].baseColors, k)
            /\ GetSample(trajectories'[i].history, 0) = Sample(trajectories'[i].current)
            /\ GetSample(trajectories'[i].baseColors, 0) = StepColor(i)
            /\ DOMAIN trajectories'[i].history = 0..(3 * trailLength - 1)
            /\ DOMAIN trajectories'[i].baseColors = 0..(3 * trailLength - 1)]_vars
\* every slot has been written by a step, the first of them has been dropped,
\* and neighbouring slots differ in sample and in colour
C25_Witness ==
    \E i \in TrajIds :
        /\ StepsDone(i) > trailLength
        /\ \A k \in 0..(trailLength - 2) :
              /\ GetSample(trajectories[i].history, k) # GetSample(trajectories[i].history, k + 1)
        /\ GetSample(trajectories[i].baseColors, 0) # GetSample(trajectories[i].baseColors, 1)

\* ---- C26 ----
\* The cursor is a slot index, equal to the number of emissions so far modulo
\* PARTICLE_COUNT, and the e-th emission was written to slot (e - 1) modulo
\* PARTICLE_COUNT: emissions fill consecutive slots and wrap, whichever star
\* they come from.
C26_CursorWraps ==
    /\ particleSystem.cursor \in 0..(PARTICLE_COUNT - 1)
    /\ particleSystem.cursor = emitted % PARTICLE_COUNT
    /\ \A n \in Slots : born[n] # 0 => n = (born[n] - 1) % PARTICLE_COUNT
    /\ DOMAIN particleSystem.ages = 0..(PARTICLE_COUNT - 1)
\* two stars are active, their emissions have wrapped around the pool, and the
\* cursor is in the middle of it
C26_Witness ==
    /\ \E i, j \in StarIds : i # j /\ stars[i].active /\ stars[j].active
    /\ emitted > PARTICLE_COUNT + EMISSION_RATE
    /\ particleSystem.cursor # 0
    /\ \A n \in Slots : born[n] # 0

\* ---- C27 ----
\* C27 (as stated): every age is in [0, 1]; a frame of length delta takes a
\* particle of age < 1 to age min(1, age + delta / lifetime) and moves it by its
\* velocity; a particle of age 1 keeps age 1 and its position until an emission
\* writes its slot, which then has age min(1, delta / lifetime) after the frame.
PoolFrame == time' # time \/ particleSystem' # particleSystem
Written(n) == born'[n] # born[n]
AgeAfter(age, lifetime, delta) ==
    IF age + (delta * 1000) \div lifetime >= 1000 THEN 1000
    ELSE age + (delta * 1000) \div lifetime
AgesInUnit == \A n \in Slots : particleSystem.ages[n] >= 0 /\ particleSystem.ages[n] <= 1000
AgesAdvance ==
    \A n \in Slots :
        /\ Written(n) =>
              particleSystem'.ages[n] = AgeAfter(0, particleSystem'.lifetimes[n], time' - time)
        /\ ~Written(n) /\ particleSystem.ages[n] >= 1000 =>
              /\ particleSystem'.ages[n] = 1000
              /\ particleSystem'.positions[n] = particleSystem.positions[n]
        /\ ~Written(n) /\ particleSystem.ages[n] < 1000 =>
              particleSystem'.ages[n] =
                  AgeAfter(particleSystem.ages[n], particleSystem.lifetimes[n], time' - time)
MovedByVelocity(n) ==
    particleSystem'.positions[n] = Add3(particleSystem.positions[n], particleSystem.velocities[n])
C27_AgingMovesEveryLive ==
    [][PoolFrame =>
        /\ AgesInUnit'
        /\ AgesAdvance
        /\ \A n \in Slots :
              ~Written(n) /\ particleSystem.ages[n] < 1000 => MovedByVelocity(n)]_vars

\* C27 (amended): as above, but the particle moves by its velocity only if its
\* new age is still below 1; in the frame in which its age reaches 1 it stays
\* where it is.
C27_AgingMovesUntilLast ==
    [][PoolFrame =>
        /\ AgesInUnit'
        /\ AgesAdvance
        /\ \A n \in Slots :
              ~Written(n) /\ particleSystem.ages[n] < 1000 =>
                  IF particleSystem'.ages[n] < 1000
                  THEN MovedByVelocity(n)
                  ELSE particleSystem'.positions[n] = particleSystem.positions[n]]_vars
\* a particle with a velocity has reached age 1 while another, emitted before
\* the last frame, is part-way through its life
C27_Witness ==
    \E m, n \in Slots :
        /\ born[n] # 0 /\ particleSystem.ages[n] = 1000
        /\ particleSystem.velocities[n] # <<0, 0, 0>>
        /\ particleSystem.ages[m] > 0 /\ particleSystem.ages[m] < 1000
        /\ particleSystem.ages[m] * particleSystem.lifetimes[m] >= 8 * 1000

\* ---- C28 ----
\* A frame at clock time t emits EMISSION_RATE particles for every star that is
\* active with t - startTime < duration, in star order, at the point of its
\* path at (t - startTime) / duration plus the drawn jitter, and leaves it
\* active; it frees, without emitting, every active star with
\* t - startTime >= duration; it emits nothing for an inactive star, which only
\* a trigger makes active.  With frames that keep coming every active star is
\* eventually freed.
Emitting(i) == stars[i].active /\ time' - stars[i].startTime < stars[i].duration
Rank(i) == Cardinality({j \in StarIds : j < i /\ Emitting(j)})
EmittedAt(n, at) ==
    \E d \in {Draws[1], Draws[2]} :
        /\ particleSystem'.velocities[n] = d.vel
        /\ particleSystem'.lifetimes[n] = d.lifetime
        /\ particleSystem'.sizes[n] = d.size
        /\ particleSystem'.positions[n] =
              IF particleSystem'.ages[n] < 1000 THEN Add3(Add3(at, d.jit), d.vel)
              ELSE Add3(at, d.jit)
FrameEmits ==
    /\ emitted' = emitted + EMISSION_RATE * Cardinality({i \in StarIds : Emitting(i)})
    /\ \A i \in StarIds :
          /\ Emitting(i) =>
                /\ stars'[i] = stars[i]
                /\ \A n \in 1..EMISSION_RATE :
                      LET e == emitted + Rank(i) * EMISSION_RATE + n
                          slot == (e - 1) % PARTICLE_COUNT
                      IN  born'[slot] = e =>
                              EmittedAt(slot, LerpVectors(stars[i].startPos, stars[i].endPos,
                                                          time' - stars[i].startTime,
                                                          stars[i].duration))
          /\ stars[i].active /\ ~Emitting(i) => stars'[i] = [stars[i] EXCEPT !.active = FALSE]
          /\ ~stars[i].active => stars'[i] = stars[i]
TriggerEmitsNothing ==
    /\ emitted' = emitted
    /\ particleSystem' = particleSystem
    /\ \A i \in StarIds : stars[i].active => stars'[i] = stars[i]
C28_StarsEmitThenFree ==
    /\ [][IF time' # time THEN FrameEmits ELSE TriggerEmitsNothing]_vars
    /\ \A i \in StarIds : stars[i].active ~> ~stars[i].active
\* a star has been freed after its duration, having emitted, while a star
\* triggered later is still active
C28_Witness ==
    \E i, j \in StarIds :
        /\ ~stars[i].active
        /\ stars[i].startPos # Vec3Zero
        /\ time - stars[i].startTime >= stars[i].duration
        /\ stars[j].active
        /\ stars[j].startTime > stars[i].startTime
        /\ emitted > EMISSION_RATE

\* ---- C29 ----
\* After a frame of the lastBroken variant every drawn pair has its two
\* vertices at the positions its two endpoints have after that frame.
C29_EdgesUseUpdatedNodes ==
    \A n \in 1..Len(plotNet.drawn) :
        /\ plotNet.lineBuf[2 * n - 1].pos = plotNet.positions[plotNet.drawn[n][1]]
        /\ plotNet.lineBuf[2 * n].pos = plotNet.positions[plotNet.drawn[n][2]]

\* ---- C30 ----
\* The line buffers always hold 2 NodeCount^2 vertices; every pair's vertices
\* of a frame lie inside them, at the pair's place in the loop order, and so
\* does the draw range.
C30_WritesStayInBuffers ==
    /\ DOMAIN lineBuf = 1..(2 * NodeCount * NodeCount)
    /\ drawCount <= 2 * NodeCount * NodeCount
    /\ \A k \in Pairs :
          /\ Offset(k) + emitCount[k] <= 2 * NodeCount * NodeCount
          /\ emitCount[k] > 0 =>
                /\ lineBuf[Offset(k) + 1].pos = pointPositions[k[1]]
                /\ lineBuf[Offset(k) + emitCount[k] \div 2 + 1].pos = pointPositions[k[2]]
\* every pair in range is in the severed phase at once, three of them at least,
\* and the last vertex of the draw range is the inner end of the last stub
C30_Witness ==
    /\ \A k \in Pairs : ~TooFar(k) => emitCount[k] = 4
    /\ Cardinality({k \in Pairs : emitCount[k] = 4}) >= 3
    /\ drawCount = SumOver(emitCount, Pairs)
    /\ lineBuf[drawCount].col.leg # "zero"

ActiveStars == {i \in StarIds : stars[i].active}
TriggerStep == time' = time /\ born' = born /\ particleSystem' = particleSystem
\* C32: at most STAR_POOL_SIZE events are active; a trigger activates the
\* lowest-numbered inactive slot, with the current clock as startTime, and
\* leaves the other slots alone; with every slot active it changes no slot.
C32_TriggerTakesFirstFreeSlot ==
    [][/\ Cardinality(ActiveStars') <= STAR_POOL_SIZE
       /\ TriggerStep =>
            IF ActiveStars = StarIds
            THEN stars' = stars
            ELSE \E i \in StarIds \ ActiveStars :
                    /\ \A j \in StarIds : j < i => j \in ActiveStars
                    /\ stars'[i].active
                    /\ stars'[i].startTime = time + perfOffset
                    /\ \A j \in StarIds \ {i} : stars'[j] = stars[j]]_vars
\* every slot is active, and the first one was freed and taken again while the
\* second was still running
C32_Witness ==
    /\ ActiveStars = StarIds
    /\ stars[1].startTime > stars[2].startTime

\* ---- C33 ----
Severed(k) == Visited(k) /\ Has(k) /\ now - brokenRef[k].brokenAt < 4
Between(lo, x, hi) == (lo <= x /\ x <= hi) \/ (hi <= x /\ x <= lo)
InnerEnd(k, e) == lineBuf[Offset(k) + (IF e = k[1] THEN 2 ELSE 4)].pos
BreakPoint(k, c) ==
    pointPositions[k[1]][c]
        + ((pointPositions[k[2]][c] - pointPositions[k[1]][c]) * brokenRef[k].ratio) \div 1000
\* the part (4 - age)^3 / 64 of the length len, rounded down
Shrunk(len, age, x) ==
    /\ 64 * x <= len * (4 - age) * (4 - age) * (4 - age)
    /\ len * (4 - age) * (4 - age) * (4 - age) < 64 * (x + 1)
\* C33: in the severed phase the sub-segment at endpoint i runs from i over
\* the part ratio x shrink of the edge and the one at j from j over the part
\* (1 - ratio) x shrink, with shrink = ((4 - age) / 4)^3, which is 1 at age 0
\* and falls with age: in the frame of the cut both inner ends are the break
\* point, and at every age the inner end of i lies between i and the break
\* point and that of j between the break point and j.
C33_StubsMeetThenRetreat ==
    \A k \in Pairs :
        Severed(k) =>
            \A c \in 1..3 :
                LET a == pointPositions[k[1]][c]
                    b == pointPositions[k[2]][c]
                    r == brokenRef[k].ratio
                    age == now - brokenRef[k].brokenAt
                    e1 == InnerEnd(k, k[1])[c]
                    e2 == InnerEnd(k, k[2])[c]
                IN  /\ r >= 0 /\ r <= 1000
                    /\ Shrunk(((b - a) * r) \div 1000, age, e1 - a)
                    /\ Shrunk(((a - b) * (1000 - r)) \div 1000, age, e2 - b)
                    /\ age = 0 => e1 = BreakPoint(k, c) /\ e2 = BreakPoint(k, c)
                    /\ Between(a, e1, BreakPoint(k, c))
                    /\ Between(BreakPoint(k, c), e2, b)
\* one pair cut in this frame strictly inside the edge, and one pair half-way
\* through the severed phase with both sub-segments shorter than at the cut
C33_Witness ==
    /\ \E k \in Pairs :
          /\ Severed(k) /\ brokenRef[k].brokenAt = now
          /\ \E c \in 1..3 :
                /\ BreakPoint(k, c) # pointPositions[k[1]][c]
                /\ BreakPoint(k, c) # pointPositions[k[2]][c]
    /\ \E k \in Pairs :
          /\ Severed(k) /\ brokenRef[k].brokenAt = now - 2
          /\ \E c \in 1..3 :
                /\ InnerEnd(k, k[1])[c] # pointPositions[k[1]][c]
                /\ InnerEnd(k, k[1])[c] # BreakPoint(k, c)
                /\ InnerEnd(k, k[2])[c] # pointPositions[k[2]][c]
                /\ InnerEnd(k, k[2])[c] # BreakPoint(k, c)

\* ---- C34 ----
SlotOf(q, n) ==
    [pos |-> q.positions[n], vel |-> q.velocities[n], age |-> q.ages[n],
     lifetime |-> q.lifetimes[n], size |-> q.sizes[n]]
\* C34: a frame that does not emit into a slot leaves it as it is if its age
\* is 1; if its age is below 1 and the step of delta / lifetime takes it to 1
\* or beyond, the age becomes exactly 1 and position and velocity stay.
C34_DeadStayAndLastStepStops ==
    [][PoolFrame =>
        \A n \in Slots :
            ~Written(n) =>
                /\ particleSystem.ages[n] = 1000 =>
                      SlotOf(particleSystem', n) = SlotOf(particleSystem, n)
                /\ (/\ particleSystem.ages[n] < 1000
                    /\ particleSystem.ages[n]
                         + ((time' - time) * 1000) \div particleSystem.lifetimes[n] >= 1000) =>
                      SlotOf(particleSystem', n) =
                          [SlotOf(particleSystem, n) EXCEPT !.age = 1000]]_vars
\* no star is active and two emitted particles of different lifetimes are both
\* dead, each still holding its velocity
C34_Witness ==
    /\ \A i \in StarIds : ~stars[i].active
    /\ \E m, n \in Slots :
          /\ born[m] # 0 /\ born[n] # 0
          /\ particleSystem.lifetimes[m] < particleSystem.lifetimes[n]
          /\ particleSystem.ages[m] = 1000 /\ particleSystem.ages[n] = 1000
          /\ particleSystem.velocities[m] # <<0, 0, 0>>
          /\ particleSystem.velocities[n] # <<0, 0, 0>>

====
